---- MODULE Spec2Model ----
(***************************************************************************)
(* Model of the infix expression engine of function_main_lat.py:           *)
(* clean_expression / validate_expression / tokenize / validate_tokens /   *)
(* infix_to_rpn / evaluate_rpn / convert_to_rpn.                           *)
(*                                                                         *)
(* A Python string is a sequence of one-character strings; a token is the  *)
(* sequence of its characters (<<"l","n">> is the token "ln").             *)
(* A number is a record [t, re, im]: t is the Python type ("int", "float", *)
(* "complex"), re and im are exact dyadic rationals <<n, d>>.  A float     *)
(* result that is not a dyadic rational of bounded size is not represented *)
(* and the evaluation stops with the outcome "Unmodelled".                 *)
(***************************************************************************)
EXTENDS Integers, Sequences, FiniteSets, TLC

(***************************************************************************)
(* Characters.  The characters of the model are the first 256 code points  *)
(* (Latin-1).                                                              *)
(***************************************************************************)
\* "0".."9": the class [0-9] (and \d) of the patterns
Digits == {"0", "1", "2", "3", "4", "5", "6", "7", "8", "9"}

\* the class [a-zA-Z] of the patterns
Letters ==
    {"a", "b", "c", "d", "e", "f", "g", "h", "i", "j", "k", "l", "m",
     "n", "o", "p", "q", "r", "s", "t", "u", "v", "w", "x", "y", "z",
     "A", "B", "C", "D", "E", "F", "G", "H", "I", "J", "K", "L", "M",
     "N", "O", "P", "Q", "R", "S", "T", "U", "V", "W", "X", "Y", "Z"}

\* str.isspace() and the class \s of the patterns: the whitespace characters
\* among the first 256 code points (space, tab, line feed, carriage return,
\* form feed, vertical tab, the four separators 1C..1F, NEL and no-break space)
Spaces == {" ", "\t", "\n", "\r", "\f", "", "", "", "", "", "", " "}

\* str.isdigit() is also true of the superscript digits, which are not in
\* [0-9] and which float() does not convert
UnicodeDigits == Digits \cup {"²", "³", "¹"}

\* str.isalpha() is true of every letter: besides [a-zA-Z], the letters among
\* the first 256 code points
UnicodeLetters ==
    Letters \cup
    {"ª", "µ", "º", "À", "Á", "Â", "Ã", "Ä", "Å", "Æ", "Ç", "È", "É", "Ê", "Ë", "Ì",
     "Í", "Î", "Ï", "Ð", "Ñ", "Ò", "Ó", "Ô", "Õ", "Ö", "Ø", "Ù", "Ú", "Û", "Ü", "Ý",
     "Þ", "ß", "à", "á", "â", "ã", "ä", "å", "æ", "ç", "è", "é", "ê", "ë", "ì", "í",
     "î", "ï", "ð", "ñ", "ò", "ó", "ô", "õ", "ö", "ø", "ù", "ú", "û", "ü", "ý", "þ",
     "ÿ"}

isdigit(c) == c \in UnicodeDigits

isalpha(c) == c \in UnicodeLetters

isspace(c) == c \in Spaces

\* str.isdigit() / str.isalpha() of a whole string: non-empty, every character
StrIsDigit(s) == Len(s) > 0 /\ \A n \in 1..Len(s) : isdigit(s[n])

StrIsAlpha(s) == Len(s) > 0 /\ \A n \in 1..Len(s) : isalpha(s[n])

\* s.replace(old, new) for one-character old; new is a string (maybe empty)
RECURSIVE Replace(_, _, _)
Replace(s, old, new) ==
    IF s = <<>> THEN <<>>
    ELSE (IF Head(s) = old THEN new ELSE <<Head(s)>>) \o Replace(Tail(s), old, new)

(***************************************************************************)
(* Module-level tables                                                     *)
(***************************************************************************)
OPERATORS ==
    (<<"+">> :> [priority |-> 1, assoc |-> "L"]) @@
    (<<"-">> :> [priority |-> 1, assoc |-> "L"]) @@
    (<<"*">> :> [priority |-> 2, assoc |-> "L"]) @@
    (<<"/">> :> [priority |-> 2, assoc |-> "L"]) @@
    (<<"%">> :> [priority |-> 2, assoc |-> "L"]) @@
    (<<"/", "/">> :> [priority |-> 2, assoc |-> "L"]) @@
    (<<"^">> :> [priority |-> 3, assoc |-> "R"]) @@
    (<<"*", "*">> :> [priority |-> 3, assoc |-> "R"])

UNARY_OPERATORS == (<<"-">> :> 4) @@ (<<"+">> :> 4)

FUNCTIONS ==
    { <<"s","q","r","t">>, <<"a","b","s">>, <<"l","n">>, <<"l","o","g">>,
      <<"l","o","g","2">>, <<"e","x","p">>, <<"f","l","o","o","r">>,
      <<"c","e","i","l">>, <<"r","o","u","n","d">>, <<"f","a","c","t">>,
      <<"s","i","n">>, <<"c","o","s">>, <<"t","a","n">>, <<"c","o","t">>,
      <<"s","e","c">>, <<"c","s","c">>, <<"a","s","i","n">>, <<"a","c","o","s">>,
      <<"a","t","a","n">>, <<"a","c","o","t">>, <<"a","s","e","c">>,
      <<"a","c","s","c">>, <<"s","i","n","h">>, <<"c","o","s","h">>,
      <<"t","a","n","h">>, <<"c","o","t","h">>, <<"s","e","c","h">>,
      <<"c","s","c","h">>, <<"a","s","i","n","h">>, <<"a","c","o","s","h">>,
      <<"a","t","a","n","h">>, <<"a","c","o","t","h">>, <<"a","s","e","c","h">>,
      <<"a","c","s","c","h">>, <<"r","a","d">>, <<"d","e","g">> }

ERROR_MESSAGES ==
    { "empty", "invalid_char", "unmatched_close", "unmatched_open",
      "empty_brackets", "two_operands", "two_operators", "starts_with_op",
      "ends_with_op", "op_after_open", "close_after_op", "no_tokens",
      "operand_after_close", "open_after_operand", "starts_with_close",
      "close_after_open", "invalid_function", "function_without_paren" }

\* the module-level names as the module defines them (lines 17-97).  An
\* operation reads OPERATORS and FUNCTIONS when it runs: the operators below
\* that do so take the tables they find as their first argument, and an
\* operator without that argument reads the tables as defined.  The messages
\* are carried by their keys.
Tables ==
    [OPERATORS |-> OPERATORS, UNARY_OPERATORS |-> UNARY_OPERATORS,
     FUNCTIONS |-> FUNCTIONS, ERROR_MESSAGES |-> ERROR_MESSAGES]

\* Python's None where a message is expected
NoError == [key |-> "none", arg |-> <<>>]

\* ERROR_MESSAGES[key], and ERROR_MESSAGES[key].format(arg)
Msg(key) == [key |-> key, arg |-> <<>>]

MsgFmt(key, arg) == [key |-> key, arg |-> arg]

(***************************************************************************)
(* ExpressionValidator.clean_expression                                    *)
(***************************************************************************)
\* expression[:expression.index('#')] when '#' occurs
RECURSIVE CutComment(_)
CutComment(s) ==
    IF s = <<>> THEN <<>>
    ELSE IF Head(s) = "#" THEN <<>>
    ELSE <<Head(s)>> \o CutComment(Tail(s))

\* str.split(): the maximal runs of non-whitespace characters
RECURSIVE SplitFrom(_, _, _, _)
SplitFrom(s, n, cur, words) ==
    IF n > Len(s) THEN (IF cur # <<>> THEN Append(words, cur) ELSE words)
    ELSE IF isspace(s[n])
         THEN SplitFrom(s, n + 1, <<>>, IF cur # <<>> THEN Append(words, cur) ELSE words)
         ELSE SplitFrom(s, n + 1, Append(cur, s[n]), words)

split(s) == SplitFrom(s, 1, <<>>, <<>>)

\* ' '.join(words)
RECURSIVE join(_)
join(words) ==
    IF words = <<>> THEN <<>>
    ELSE IF Len(words) = 1 THEN words[1]
    ELSE words[1] \o <<" ">> \o join(Tail(words))

\* str.strip()
RECURSIVE lstrip(_)
lstrip(s) == IF s # <<>> /\ isspace(Head(s)) THEN lstrip(Tail(s)) ELSE s

RECURSIVE rstrip(_)
rstrip(s) ==
    IF s # <<>> /\ isspace(s[Len(s)]) THEN rstrip(SubSeq(s, 1, Len(s) - 1)) ELSE s

strip(s) == rstrip(lstrip(s))

clean_expression(expression) == strip(join(split(CutComment(expression))))

(***************************************************************************)
(* ExpressionValidator.validate_expression                                 *)
(***************************************************************************)
\* the character class [0-9a-zA-Z\+\-\*/\^\%\(\)\.\s]
AllowedChars == Digits \cup Letters \cup Spaces \cup {"+", "-", "*", "/", "^", "%", "(", ")", "."}

\* BracketScan without the test inside the loop: only the final count is looked at
RECURSIVE BracketScanEndOnly(_, _, _)
BracketScanEndOnly(s, n, bracket_count) ==
    IF n > Len(s) THEN (IF bracket_count > 0 THEN "open" ELSE "ok")
    ELSE IF s[n] = "(" THEN BracketScanEndOnly(s, n + 1, bracket_count + 1)
    ELSE IF s[n] = ")" THEN BracketScanEndOnly(s, n + 1, bracket_count - 1)
    ELSE BracketScanEndOnly(s, n + 1, bracket_count)

\* the parenthesis loop: "close" as soon as the count is negative,
\* "open" when it ends positive, "ok" otherwise
RECURSIVE BracketScan(_, _, _)
BracketScan(s, n, bracket_count) ==
    IF n > Len(s) THEN (IF bracket_count > 0 THEN "open" ELSE "ok")
    ELSE IF s[n] = "(" THEN BracketScan(s, n + 1, bracket_count + 1)
    ELSE IF s[n] = ")"
         THEN (IF bracket_count - 1 < 0 THEN "close"
               ELSE BracketScan(s, n + 1, bracket_count - 1))
    ELSE BracketScan(s, n + 1, bracket_count)

validate_expression(expression) ==
    LET e == clean_expression(expression)
        bad == {n \in 1..Len(e) : e[n] \notin AllowedChars}
        first == CHOOSE n \in bad : \A m \in bad : n <= m
        br == BracketScan(e, 1, 0)
    IN  IF e = <<>> THEN [valid |-> FALSE, error |-> Msg("empty")]
        ELSE IF bad # {} THEN [valid |-> FALSE, error |-> MsgFmt("invalid_char", <<e[first]>>)]
        ELSE IF br = "close" THEN [valid |-> FALSE, error |-> Msg("unmatched_close")]
        ELSE IF br = "open" THEN [valid |-> FALSE, error |-> Msg("unmatched_open")]
        ELSE [valid |-> TRUE, error |-> NoError]

(***************************************************************************)
(* get_token_type                                                          *)
(***************************************************************************)
get_token_type_in(tables, token) ==
    IF StrIsDigit(Replace(token, ".", <<>>)) THEN "operand"
    ELSE IF token \in tables.FUNCTIONS THEN "function"
    ELSE IF StrIsAlpha(token) THEN "operand"
    ELSE IF token \in DOMAIN tables.OPERATORS THEN "operator"
    ELSE IF token = <<"(">> THEN "open"
    ELSE IF token = <<")">> THEN "close"
    ELSE "unknown"

get_token_type(token) == get_token_type_in(Tables, token)

(***************************************************************************)
(* tokenize                                                                *)
(***************************************************************************)
\* end (exclusive) of the run of digits and dots that starts at n
RECURSIVE NumberEnd(_, _)
NumberEnd(s, j) ==
    IF j <= Len(s) /\ (isdigit(s[j]) \/ s[j] = ".") THEN NumberEnd(s, j + 1) ELSE j

\* end (exclusive) of the run of letters that starts at n
RECURSIVE AlphaEnd(_, _)
AlphaEnd(s, j) ==
    IF j <= Len(s) /\ isalpha(s[j]) THEN AlphaEnd(s, j + 1) ELSE j

\* the scanning loop; temp_tokens holds <<kind, text>> pairs
RECURSIVE ScanLoop(_, _, _)
ScanLoop(s, n, temp_tokens) ==
    IF n > Len(s) THEN [raised |-> FALSE, ch |-> "", temp_tokens |-> temp_tokens]
    ELSE IF isspace(s[n]) THEN ScanLoop(s, n + 1, temp_tokens)
    ELSE IF isdigit(s[n]) \/ (s[n] = "." /\ n + 1 <= Len(s) /\ isdigit(s[n + 1]))
         THEN LET j == NumberEnd(s, n)
              IN  ScanLoop(s, j, Append(temp_tokens, <<"number", SubSeq(s, n, j - 1)>>))
    ELSE IF isalpha(s[n])
         THEN LET j == AlphaEnd(s, n)
              IN  ScanLoop(s, j, Append(temp_tokens, <<"alpha", SubSeq(s, n, j - 1)>>))
    ELSE IF n + 1 <= Len(s) /\ SubSeq(s, n, n + 1) \in {<<"*", "*">>, <<"/", "/">>}
         THEN ScanLoop(s, n + 2, Append(temp_tokens, <<"operator", SubSeq(s, n, n + 1)>>))
    ELSE IF s[n] \in {"+", "-", "*", "/", "^", "%", "(", ")"}
         THEN ScanLoop(s, n + 1, Append(temp_tokens, <<"operator", <<s[n]>>>>))
    ELSE [raised |-> TRUE, ch |-> s[n], temp_tokens |-> temp_tokens]

\* the branch of the while loop taken at index n
ScanBranch(s, n) ==
    IF isspace(s[n]) THEN "space"
    ELSE IF isdigit(s[n]) \/ (s[n] = "." /\ n + 1 <= Len(s) /\ isdigit(s[n + 1])) THEN "number"
    ELSE IF isalpha(s[n]) THEN "alpha"
    ELSE IF n + 1 <= Len(s) /\ SubSeq(s, n, n + 1) \in {<<"*", "*">>, <<"/", "/">>}
    THEN "operator2"
    ELSE IF s[n] \in {"+", "-", "*", "/", "^", "%", "(", ")"} THEN "operator"
    ELSE "raise"

\* a whitespace branch that leaves the index where it is
ScanNextStuck(s, n) ==
    LET branch == ScanBranch(s, n)
    IN  IF branch = "number" THEN NumberEnd(s, n)
        ELSE IF branch = "alpha" THEN AlphaEnd(s, n)
        ELSE IF branch = "operator2" THEN n + 2
        ELSE IF branch = "operator" THEN n + 1
        ELSE n

\* the index after the iteration at index n
ScanNext(s, n) ==
    LET branch == ScanBranch(s, n)
    IN  IF branch = "space" THEN n + 1
        ELSE IF branch = "number" THEN NumberEnd(s, n)
        ELSE IF branch = "alpha" THEN AlphaEnd(s, n)
        ELSE IF branch = "operator2" THEN n + 2
        ELSE IF branch = "operator" THEN n + 1
        ELSE n

\* temp_tokens after the iteration at index n
ScanAppend(s, n, temp_tokens) ==
    LET branch == ScanBranch(s, n)
        text == SubSeq(s, n, ScanNext(s, n) - 1)
    IN  IF branch = "number" THEN Append(temp_tokens, <<"number", text>>)
        ELSE IF branch = "alpha" THEN Append(temp_tokens, <<"alpha", text>>)
        ELSE IF branch \in {"operator2", "operator"}
        THEN Append(temp_tokens, <<"operator", text>>)
        ELSE temp_tokens

\* the string that the loop of tokenize scans
ScannedString(expression) == Replace(clean_expression(expression), ",", <<".">>)

\* result of tokenize: kind "ok" (the token list), "none" (return None) or
\* "raise" (ValueError carrying error)
tokenize(expression) ==
    LET e == Replace(clean_expression(expression), ",", <<".">>)
        sc == ScanLoop(e, 1, <<>>)
        tt == sc.temp_tokens
    IN  IF sc.raised
        THEN [kind |-> "raise", tokens |-> <<>>, error |-> MsgFmt("invalid_char", <<sc.ch>>)]
        ELSE IF \E n \in 1..(Len(tt) - 1) : tt[n][1] = "number" /\ tt[n + 1][1] = "number"
        THEN [kind |-> "none", tokens |-> <<>>, error |-> NoError]
        ELSE [kind |-> "ok", tokens |-> [n \in 1..Len(tt) |-> tt[n][2]], error |-> NoError]

(***************************************************************************)
(* ExpressionValidator.validate_tokens                                     *)
(***************************************************************************)
PlusMinus == {<<"-">>, <<"+">>}

\* UnaryAllowed that does not admit a sign after an operator
UnaryAllowedNotAfterOperator(token, n, prev_type) ==
    token \in PlusMinus /\ (n = 1 \/ prev_type \in {"open"})

\* "Allow unary minus/plus at start or after (, or operator"
UnaryAllowed(token, n, prev_type) ==
    token \in PlusMinus /\ (n = 1 \/ prev_type \in {"open", "operator"})

\* one iteration of the "Check sequence" loop for tokens[n] (n is 1-based,
\* Python's i is n - 1); prev_type is "none" before the first token
TokenCheck(tables, tokens, n, prev_token, prev_type) ==
    LET token == tokens[n]
        curr_type == get_token_type_in(tables, token)
    IN  IF curr_type = "function" /\ token \notin tables.FUNCTIONS
        THEN MsgFmt("invalid_function", token)
        ELSE IF curr_type = "function" /\ (n + 1 > Len(tokens) \/ tokens[n + 1] # <<"(">>)
        THEN MsgFmt("function_without_paren", token)
        ELSE IF curr_type = "operand"
        THEN (IF prev_type = "operand" THEN Msg("two_operands")
              ELSE IF prev_type = "close" THEN Msg("operand_after_close")
              ELSE NoError)
        ELSE IF curr_type = "operator"
        THEN (IF UnaryAllowed(token, n, prev_type)
              THEN NoError
              ELSE IF n = 1 THEN Msg("starts_with_op")
              ELSE IF prev_type = "operator"
                      /\ ~(token \in PlusMinus /\ prev_token \notin PlusMinus)
                   THEN Msg("two_operators")
              ELSE IF prev_type = "open" /\ token \notin PlusMinus THEN Msg("op_after_open")
              ELSE IF n = Len(tokens) THEN Msg("ends_with_op")
              ELSE NoError)
        ELSE IF token = <<"(">>
        THEN (IF prev_type = "operand" THEN Msg("open_after_operand")
              ELSE IF prev_type = "close" THEN Msg("open_after_operand")
              ELSE NoError)
        ELSE IF token = <<")">>
        THEN (IF n = 1 THEN Msg("starts_with_close")
              ELSE IF prev_type = "operator" THEN Msg("close_after_op")
              ELSE IF prev_type = "open" THEN Msg("close_after_open")
              ELSE NoError)
        ELSE NoError

\* the loop: the message of the first iteration that returns, with its position
RECURSIVE SequenceLoop_in(_, _, _, _, _)
SequenceLoop_in(tables, tokens, n, prev_token, prev_type) ==
    IF n > Len(tokens) THEN [error |-> NoError, at |-> 0]
    ELSE LET r == TokenCheck(tables, tokens, n, prev_token, prev_type)
         IN  IF r # NoError THEN [error |-> r, at |-> n]
             ELSE SequenceLoop_in(tables, tokens, n + 1, tokens[n],
                                  get_token_type_in(tables, tokens[n]))

SequenceLoop(tokens, n, prev_token, prev_type) ==
    SequenceLoop_in(Tables, tokens, n, prev_token, prev_type)

HasEmptyBrackets(tokens) ==
    \E n \in 1..(Len(tokens) - 1) : tokens[n] = <<"(">> /\ tokens[n + 1] = <<")">>

\* validate_tokens with the empty-bracket check after the sequence loop
validate_tokens_scan_first(tables, tokens) ==
    IF tokens = <<>> THEN [valid |-> FALSE, error |-> Msg("no_tokens")]
    ELSE LET r == SequenceLoop_in(tables, tokens, 1, <<>>, "none")
         IN  IF r.error # NoError THEN [valid |-> FALSE, error |-> r.error]
             ELSE IF HasEmptyBrackets(tokens)
             THEN [valid |-> FALSE, error |-> Msg("empty_brackets")]
             ELSE [valid |-> TRUE, error |-> NoError]

validate_tokens(tables, tokens) ==
    IF tokens = <<>> THEN [valid |-> FALSE, error |-> Msg("no_tokens")]
    ELSE IF HasEmptyBrackets(tokens) THEN [valid |-> FALSE, error |-> Msg("empty_brackets")]
    ELSE LET r == SequenceLoop_in(tables, tokens, 1, <<>>, "none")
         IN  IF r.error # NoError THEN [valid |-> FALSE, error |-> r.error]
             ELSE [valid |-> TRUE, error |-> NoError]

(***************************************************************************)
(* infix_to_rpn (Shunting Yard)                                            *)
(***************************************************************************)
\* the marker 'u' + token pushed for a unary sign
UnaryMarker(token) == <<"u">> \o token

UnaryMarkers == {<<"u", "-">>, <<"u", "+">>}

Top(st) == st[Len(st)]

Pop(st) == SubSeq(st, 1, Len(st) - 1)

\* the list reversed: the order in which "while stack: output.append(stack.pop())" emits it
RECURSIVE Reverse(_)
Reverse(s) == IF s = <<>> THEN <<>> ELSE Reverse(Tail(s)) \o <<Head(s)>>

\* ')' branch, first loop: pop to output until '(' is on top (or the stack is empty)
\* a closing parenthesis that drops the operators above the last '('
\* instead of moving them to the output
PopUntilOpenDiscarding(output, stack) ==
    LET opens == {n \in 1..Len(stack) : stack[n] = <<"(">>}
        last == IF opens = {} THEN 0 ELSE CHOOSE n \in opens : \A m \in opens : m <= n
    IN  [output |-> output, stack |-> SubSeq(stack, 1, last)]

RECURSIVE PopUntilOpen(_, _)
PopUntilOpen(output, stack) ==
    IF stack # <<>> /\ Top(stack) # <<"(">>
    THEN PopUntilOpen(Append(output, Top(stack)), Pop(stack))
    ELSE [output |-> output, stack |-> stack]

\* Dominates that treats every operator as left-associative
DominatesLeftOnly(tables, top, token) ==
    tables.OPERATORS[top].priority >= tables.OPERATORS[token].priority

\* the test that pops an operator of the stack for an incoming binary operator
Dominates(tables, top, token) ==
    LET priority == tables.OPERATORS[token].priority
        assoc == tables.OPERATORS[token].assoc
        top_priority == tables.OPERATORS[top].priority
    IN  (assoc = "L" /\ top_priority >= priority) \/ (assoc = "R" /\ top_priority > priority)

\* binary-operator branch: the "while stack" loop
RECURSIVE PopForBinary(_, _, _, _)
PopForBinary(tables, output, stack, token) ==
    IF stack = <<>> THEN [output |-> output, stack |-> stack]
    ELSE IF Top(stack) \in {<<"(">>} \cup UnaryMarkers THEN [output |-> output, stack |-> stack]
    ELSE IF Top(stack) \in tables.FUNCTIONS
         THEN PopForBinary(tables, Append(output, Top(stack)), Pop(stack), token)
    ELSE IF Top(stack) \in DOMAIN tables.OPERATORS
         THEN (IF Dominates(tables, Top(stack), token)
               THEN PopForBinary(tables, Append(output, Top(stack)), Pop(stack), token)
               ELSE [output |-> output, stack |-> stack])
    ELSE [output |-> output, stack |-> stack]

\* the branch of the for loop taken by a token
TokenBranch_in(tables, token, expect_unary) ==
    LET token_type == get_token_type_in(tables, token)
    IN  IF token_type = "operand" THEN "operand"
        ELSE IF token_type = "function" THEN "function"
        ELSE IF token = <<"(">> THEN "open"
        ELSE IF token = <<")">> THEN "close"
        ELSE IF token_type = "operator"
             THEN (IF expect_unary /\ token \in PlusMinus THEN "unary" ELSE "binary")
        ELSE "skip"

TokenBranch(token, expect_unary) == TokenBranch_in(Tables, token, expect_unary)

\* one iteration of the for loop; c = [output, stack, expect_unary]
RpnStep(tables, c, token) ==
    LET br == TokenBranch_in(tables, token, c.expect_unary)
    IN  IF br = "operand"
        THEN [output |-> Append(c.output, token), stack |-> c.stack, expect_unary |-> FALSE]
        ELSE IF br = "function"
        THEN [output |-> c.output, stack |-> Append(c.stack, token), expect_unary |-> TRUE]
        ELSE IF br = "open"
        THEN [output |-> c.output, stack |-> Append(c.stack, token), expect_unary |-> TRUE]
        ELSE IF br = "close"
        THEN LET p == PopUntilOpen(c.output, c.stack)
             IN  IF p.stack # <<>>
                 THEN LET s2 == Pop(p.stack)
                      IN  IF s2 # <<>> /\ Top(s2) \in tables.FUNCTIONS
                          THEN [output |-> Append(p.output, Top(s2)), stack |-> Pop(s2),
                                expect_unary |-> FALSE]
                          ELSE [output |-> p.output, stack |-> s2, expect_unary |-> FALSE]
                 ELSE [output |-> p.output, stack |-> p.stack, expect_unary |-> FALSE]
        ELSE IF br = "unary"
        THEN [output |-> c.output, stack |-> Append(c.stack, UnaryMarker(token)),
              expect_unary |-> c.expect_unary]
        ELSE IF br = "binary"
        THEN LET p == PopForBinary(tables, c.output, c.stack, token)
             IN  [output |-> p.output, stack |-> Append(p.stack, token), expect_unary |-> TRUE]
        ELSE c

RpnInit == [output |-> <<>>, stack |-> <<>>, expect_unary |-> TRUE]

RECURSIVE RpnLoop(_, _, _, _)
RpnLoop(tables, c, tokens, n) ==
    IF n > Len(tokens) THEN c
    ELSE RpnLoop(tables, RpnStep(tables, c, tokens[n]), tokens, n + 1)

\* "Pop remaining operators" and return
RpnFinish(c) == c.output \o Reverse(c.stack)

infix_to_rpn_in(tables, tokens) == RpnFinish(RpnLoop(tables, RpnInit, tokens, 1))

infix_to_rpn(tokens) == infix_to_rpn_in(Tables, tokens)

(***************************************************************************)
(* convert_to_rpn                                                          *)
(***************************************************************************)
convert_to_rpn_in(tables, expression) ==
    LET v == validate_expression(expression)
        t == tokenize(expression)
        vt == validate_tokens(tables, t.tokens)
    IN  IF ~v.valid THEN [success |-> FALSE, rpn |-> <<>>, error |-> v.error]
        ELSE IF t.kind = "raise" THEN [success |-> FALSE, rpn |-> <<>>, error |-> t.error]
        ELSE IF t.kind = "none" THEN [success |-> FALSE, rpn |-> <<>>, error |-> Msg("two_operands")]
        ELSE IF ~vt.valid THEN [success |-> FALSE, rpn |-> <<>>, error |-> vt.error]
        ELSE [success |-> TRUE, rpn |-> infix_to_rpn_in(tables, t.tokens), error |-> NoError]

convert_to_rpn(expression) == convert_to_rpn_in(Tables, expression)

(***************************************************************************)
(* Numbers.  A rational is <<n, d>> with d > 0 in lowest terms; Bad stands *)
(* for a float that is not represented exactly (d not a power of two, or   *)
(* numerator or denominator above MaxMag): nothing is known of it, it may  *)
(* be negative, zero by underflow, infinite or nan.  The numbers carry no  *)
(* sign of zero: where the sign of a zero decides the result, the outcome  *)
(* is Unmodelled.                                                          *)
(***************************************************************************)
MaxMag == 10000

Bad == <<0, 0>>

IsBad(x) == x[2] = 0

AbsInt(n) == IF n < 0 THEN -n ELSE n

RECURSIVE GCD(_, _)
GCD(m, n) == IF n = 0 THEN m ELSE GCD(n, m % n)

RECURSIVE IsPow2(_)
IsPow2(d) == d = 1 \/ (d > 1 /\ d % 2 = 0 /\ IsPow2(d \div 2))

\* n / d (d > 0) in lowest terms
RNorm(n, d) ==
    LET g == GCD(AbsInt(n), d)
        nn == n \div g
        dd == d \div g
    IN  IF AbsInt(nn) > MaxMag \/ dd > MaxMag \/ ~IsPow2(dd) THEN Bad ELSE <<nn, dd>>

RInt(n) == IF AbsInt(n) > MaxMag THEN Bad ELSE <<n, 1>>

RZero == <<0, 1>>

ROne == <<1, 1>>

RAdd(x, y) == IF IsBad(x) \/ IsBad(y) THEN Bad ELSE RNorm(x[1] * y[2] + y[1] * x[2], x[2] * y[2])

RNeg(x) == IF IsBad(x) THEN Bad ELSE <<-x[1], x[2]>>

RSub(x, y) == RAdd(x, RNeg(y))

RMul(x, y) == IF IsBad(x) \/ IsBad(y) THEN Bad ELSE RNorm(x[1] * y[1], x[2] * y[2])

\* x / y (not represented for y = 0)
RDiv(x, y) ==
    IF IsBad(x) \/ IsBad(y) \/ y[1] = 0 THEN Bad
    ELSE IF y[1] < 0 THEN RNorm(-(x[1] * y[2]), x[2] * (-y[1]))
    ELSE RNorm(x[1] * y[2], x[2] * y[1])

RIsZero(x) == x[1] = 0 /\ x[2] # 0

RIsInt(x) == x[2] = 1

RLt(x, y) == x[1] * y[2] < y[1] * x[2]

RAbs(x) == IF x[1] < 0 THEN RNeg(x) ELSE x

\* math.floor(x) and math.ceil(x) as integers
FloorInt(x) == x[1] \div x[2]

CeilInt(x) == -((-x[1]) \div x[2])

\* floor(x / y) for y # 0, as an integer
FloorQuot(x, y) ==
    IF y[1] < 0 THEN (-(x[1] * y[2])) \div (x[2] * (-y[1]))
    ELSE (x[1] * y[2]) \div (x[2] * y[1])

\* x ** n for an integer n >= 0, by squaring
RECURSIVE RPowU(_, _)
RPowU(x, n) ==
    IF IsBad(x) THEN Bad
    ELSE IF n = 0 THEN ROne
    ELSE IF n = 1 THEN x
    ELSE IF n % 2 = 1 THEN RMul(x, RPowU(RMul(x, x), n \div 2))
    ELSE RPowU(RMul(x, x), n \div 2)

\* A Python number: t is its type
Num(t, re, im) == [t |-> t, re |-> re, im |-> im]

PyFloat(x) == Num("float", x, RZero)

PyInt(n) == Num("int", RInt(n), RZero)

PyComplex(re, im) == Num("complex", re, im)

\* a type test that never recognises a complex
isinstance_complex_never(v) == FALSE

isinstance_complex(v) == v.t = "complex"

\* a zero test that looks at int and float values only
IsZeroRealOnly(v) == v.t # "complex" /\ RIsZero(v.re)

\* v == 0
IsZero(v) == RIsZero(v.re) /\ RIsZero(v.im)

VBad(v) == IsBad(v.re) \/ IsBad(v.im)

\* v has a part of which nothing is known (math.pi and math.e are not
\* represented either, but they are known to be positive and not integers)
Unknown(v) == v.re = Bad \/ v.im = Bad

\* Outcome of an operation: exc = "none" and the value, or the exception raised.
\* "Unmodelled" is not a Python outcome: the exact value is not represented.
Returns(v) ==
    IF VBad(v) THEN [exc |-> "Unmodelled", msg |-> NoError, val |-> PyFloat(RZero)]
    ELSE [exc |-> "none", msg |-> NoError, val |-> v]

Raises(exc, msg) == [exc |-> exc, msg |-> msg, val |-> PyFloat(RZero)]

Unmodelled == Raises("Unmodelled", NoError)

\* type of the result of a + b, a - b, a * b, a % b, a // b
ArithType(a, b) ==
    IF a.t = "complex" \/ b.t = "complex" THEN "complex"
    ELSE IF a.t = "int" /\ b.t = "int" THEN "int"
    ELSE "float"

CMulRe(a, b) == RSub(RMul(a.re, b.re), RMul(a.im, b.im))

CMulIm(a, b) == RAdd(RMul(a.re, b.im), RMul(a.im, b.re))

CMul(a, b) == PyComplex(CMulRe(a, b), CMulIm(a, b))

\* complex quotient a / b for b # 0 (the quotient is exact only if the
\* ratio of the parts of b that the division algorithm forms is exact)
CDiv(a, b) ==
    LET ratio == IF RLt(RAbs(b.re), RAbs(b.im)) THEN RDiv(b.re, b.im) ELSE RDiv(b.im, b.re)
        denom == RAdd(RMul(b.re, b.re), RMul(b.im, b.im))
    IN  IF IsBad(ratio) \/ IsBad(denom) THEN PyComplex(Bad, Bad)
        ELSE PyComplex(RDiv(RAdd(RMul(a.re, b.re), RMul(a.im, b.im)), denom),
                     RDiv(RSub(RMul(a.im, b.re), RMul(a.re, b.im)), denom))

RECURSIVE CPowU(_, _)
CPowU(x, n) ==
    IF VBad(x) THEN x
    ELSE IF n = 0 THEN PyComplex(ROne, RZero)
    ELSE IF n = 1 THEN x
    ELSE IF n % 2 = 1 THEN CMul(x, CPowU(CMul(x, x), n \div 2))
    ELSE CPowU(CMul(x, x), n \div 2)

\* a ** b for int / float operands
PowReal(a, b) ==
    IF RIsInt(b.re)
    THEN LET n == b.re[1]
         IN  IF n >= 0
             THEN Returns(Num(IF a.t = "int" /\ b.t = "int" THEN "int" ELSE "float",
                              RPowU(a.re, n), RZero))
             ELSE IF IsZero(a) THEN Raises("ZeroDivisionError", Msg("zero_to_negative_power"))
             ELSE LET p == RPowU(a.re, -n)
                  IN  IF IsBad(p) THEN Unmodelled ELSE Returns(PyFloat(RDiv(ROne, p)))
    ELSE IF IsZero(a)
         THEN (IF Unknown(b) THEN Unmodelled
               ELSE IF b.re[1] < 0
               THEN Raises("ZeroDivisionError", Msg("zero_to_negative_power"))
               ELSE Returns(PyFloat(RZero)))
    ELSE IF a.re = ROne THEN Returns(PyFloat(ROne))
    ELSE Unmodelled

\* the bound of complex_pow on the exponents it raises by repeated multiplication
SmallPower == 100

\* a ** b when a or b is complex
PowComplex(a, b) ==
    IF RIsZero(b.im) /\ RIsInt(b.re) /\ AbsInt(b.re[1]) <= SmallPower
    THEN LET n == b.re[1]
         IN  IF n > 0 THEN Returns(CPowU(PyComplex(a.re, a.im), n))
             ELSE LET p == CPowU(PyComplex(a.re, a.im), -n)
                  IN  IF VBad(p) THEN Unmodelled
                      ELSE IF IsZero(p)
                      THEN Raises("ZeroDivisionError", Msg("zero_to_negative_power"))
                      ELSE Returns(CDiv(PyComplex(ROne, RZero), p))
    ELSE IF Unknown(b) THEN Unmodelled
    ELSE IF IsZero(b) THEN Returns(PyComplex(ROne, RZero))
    ELSE IF IsZero(a)
         THEN (IF b.re[1] < 0 \/ ~RIsZero(b.im)
               THEN Raises("ZeroDivisionError", Msg("zero_to_negative_power"))
               ELSE Returns(PyComplex(RZero, RZero)))
    ELSE Unmodelled

\* the arithmetic of the binary-operator branch of evaluate_rpn, after the
\* two pops: a is the left operand, b the right operand
ApplyBinary(token, a, b) ==
    LET t == ArithType(a, b)
    IN  IF token = <<"+">> THEN Returns(Num(t, RAdd(a.re, b.re), RAdd(a.im, b.im)))
        ELSE IF token = <<"-">> THEN Returns(Num(t, RSub(a.re, b.re), RSub(a.im, b.im)))
        ELSE IF token = <<"*">> THEN Returns(Num(t, CMulRe(a, b), CMulIm(a, b)))
        ELSE IF token = <<"/">>
        THEN (IF Unknown(b) THEN Unmodelled
              ELSE IF IsZero(b) THEN Raises("ValueError", Msg("division_by_zero"))
              ELSE IF t = "complex" THEN Returns(CDiv(a, b))
              ELSE Returns(PyFloat(RDiv(a.re, b.re))))
        ELSE IF token = <<"%">>
        THEN (IF Unknown(b) THEN Unmodelled
              ELSE IF IsZero(b) THEN Raises("ValueError", Msg("division_by_zero"))
              ELSE IF isinstance_complex(a) \/ isinstance_complex(b)
              THEN Raises("ValueError", Msg("modulo_complex"))
              ELSE IF VBad(a) \/ VBad(b) THEN Unmodelled
              ELSE Returns(Num(t, RSub(a.re, RMul(b.re, RInt(FloorQuot(a.re, b.re)))), RZero)))
        ELSE IF token = <<"/", "/">>
        THEN (IF Unknown(b) THEN Unmodelled
              ELSE IF IsZero(b) THEN Raises("ValueError", Msg("division_by_zero"))
              ELSE IF isinstance_complex(a) \/ isinstance_complex(b)
              THEN Raises("ValueError", Msg("floor_division_complex"))
              ELSE IF VBad(a) \/ VBad(b) THEN Unmodelled
              ELSE Returns(Num(t, RInt(FloorQuot(a.re, b.re)), RZero)))
        ELSE IF t = "complex" THEN PowComplex(a, b)
        ELSE PowReal(a, b)

\* -a and +a
ApplyUnary(token, a) ==
    IF token = <<"u", "-">> THEN Returns(Num(a.t, RNeg(a.re), RNeg(a.im)))
    ELSE Returns(a)

(***************************************************************************)
(* Functions of evaluate_rpn.  The transcendental functions are represented *)
(* at the arguments where their value is exact; elsewhere the outcome is   *)
(* Unmodelled.                                                             *)
(***************************************************************************)
IsSquare(n) == \E r \in 0..n : r * r = n

ISqrt(n) == CHOOSE r \in 0..n : r * r = n

\* square root of a rational that is a perfect square, else Bad
RSqrt(x) ==
    IF IsBad(x) \/ x[1] < 0 THEN Bad
    ELSE IF IsSquare(x[1]) /\ IsSquare(x[2]) THEN <<ISqrt(x[1]), ISqrt(x[2])>>
    ELSE Bad

\* v "is real": an int, a float, or a complex with zero imaginary part
ImZero(v) == RIsZero(v.im)

\* cmath.sqrt(a).  A negative int or float has the root +sqrt(-a)j.  A complex
\* on the negative real axis has the root +sqrt(-a)j or -sqrt(-a)j by the sign
\* of its zero imaginary part ((-4+0j) against (-4-0j) = -(4+0j)), which the
\* numbers do not carry
CSqrt(a) ==
    IF ~ImZero(a) THEN Unmodelled
    ELSE IF a.re[1] >= 0 THEN Returns(PyComplex(RSqrt(a.re), RZero))
    ELSE IF a.t = "complex" THEN Unmodelled
    ELSE Returns(PyComplex(RZero, RSqrt(RNeg(a.re))))

\* abs(a)
PyAbs(a) ==
    IF a.t = "complex"
    THEN (IF RIsZero(a.im) THEN Returns(PyFloat(RAbs(a.re)))
          ELSE IF RIsZero(a.re) THEN Returns(PyFloat(RAbs(a.im)))
          ELSE Unmodelled)
    ELSE Returns(Num(a.t, RAbs(a.re), RZero))

\* round(a) of a real: to the nearest integer, ties to the even one
RoundInt(x) ==
    LET f == FloorInt(x)
        twice == 2 * (x[1] - f * x[2])
    IN  IF twice < x[2] THEN f
        ELSE IF twice > x[2] THEN f + 1
        ELSE IF f % 2 = 0 THEN f ELSE f + 1

\* math.factorial(n) as the product 1 * 2 * ... * n, given up once above MaxMag
RECURSIVE FactorialFrom(_, _, _)
FactorialFrom(j, n, acc) ==
    IF acc > MaxMag \/ j > n THEN acc ELSE FactorialFrom(j + 1, n, acc * j)

\* the product 1 * 2 * ... * (n - 1): a factorial that leaves out its last factor
FactorialBelow(n) == FactorialFrom(1, n - 1, 1)

Factorial(n) == FactorialFrom(1, n, 1)

\* a complex-aware function whose value at zero is zero and is not
\* represented elsewhere
ZeroAtZero(a) == IF IsZero(a) THEN Returns(PyComplex(RZero, RZero)) ELSE Unmodelled

\* a complex-aware function whose value at zero is one
OneAtZero(a) == IF IsZero(a) THEN Returns(PyComplex(ROne, RZero)) ELSE Unmodelled

\* a complex-aware function whose value at one is zero
ZeroAtOne(a) ==
    IF a.re = ROne /\ RIsZero(a.im) THEN Returns(PyComplex(RZero, RZero)) ELSE Unmodelled

\* the function branch of evaluate_rpn after the pop of a
ApplyFunction(token, a) ==
    IF token = <<"s","q","r","t">> THEN CSqrt(a)
    ELSE IF token = <<"a","b","s">> THEN PyAbs(a)
    ELSE IF token \in {<<"l","n">>, <<"l","o","g">>, <<"l","o","g","2">>}
    THEN (IF IsZero(a) THEN Raises("ValueError", Msg("logarithm_of_zero")) ELSE ZeroAtOne(a))
    ELSE IF token = <<"e","x","p">> THEN OneAtZero(a)
    ELSE IF token = <<"f","l","o","o","r">>
    THEN (IF isinstance_complex(a) THEN Raises("ValueError", Msg("floor_complex"))
          ELSE IF VBad(a) THEN Unmodelled
          ELSE Returns(PyInt(FloorInt(a.re))))
    ELSE IF token = <<"c","e","i","l">>
    THEN (IF isinstance_complex(a) THEN Raises("ValueError", Msg("ceiling_complex"))
          ELSE IF VBad(a) THEN Unmodelled
          ELSE Returns(PyInt(CeilInt(a.re))))
    ELSE IF token = <<"r","o","u","n","d">>
    THEN (IF isinstance_complex(a) THEN Raises("ValueError", Msg("round_complex"))
          ELSE IF VBad(a) THEN Unmodelled
          ELSE Returns(PyInt(RoundInt(a.re))))
    ELSE IF token = <<"f","a","c","t">>
    THEN (IF isinstance_complex(a) THEN Raises("ValueError", Msg("factorial_argument"))
          ELSE IF Unknown(a) THEN Unmodelled
          ELSE IF a.re[1] < 0 \/ ~RIsInt(a.re)
          THEN Raises("ValueError", Msg("factorial_argument"))
          ELSE Returns(PyInt(Factorial(a.re[1]))))
    ELSE IF token \in {<<"s","i","n">>, <<"t","a","n">>, <<"a","s","i","n">>,
                       <<"a","t","a","n">>, <<"s","i","n","h">>, <<"t","a","n","h">>,
                       <<"a","s","i","n","h">>, <<"a","t","a","n","h">>}
    THEN ZeroAtZero(a)
    ELSE IF token \in {<<"c","o","s">>, <<"c","o","s","h">>} THEN OneAtZero(a)
    ELSE IF token = <<"c","o","t">>
    THEN (IF IsZero(a) THEN Raises("ValueError", Msg("cotangent_undefined")) ELSE Unmodelled)
    ELSE IF token = <<"s","e","c">> THEN OneAtZero(a)
    ELSE IF token = <<"c","s","c">>
    THEN (IF IsZero(a) THEN Raises("ValueError", Msg("cosecant_undefined")) ELSE Unmodelled)
    ELSE IF token \in {<<"a","c","o","s">>, <<"a","c","o","s","h">>} THEN ZeroAtOne(a)
    ELSE IF token = <<"a","c","o","t">> THEN Unmodelled
    ELSE IF token = <<"a","s","e","c">>
    THEN (IF IsZero(a) THEN Raises("ValueError", Msg("arcsecant_undefined")) ELSE ZeroAtOne(a))
    ELSE IF token = <<"a","c","s","c">>
    THEN (IF IsZero(a) THEN Raises("ValueError", Msg("arccosecant_undefined")) ELSE Unmodelled)
    ELSE IF token = <<"c","o","t","h">>
    THEN (IF IsZero(a) THEN Raises("ValueError", Msg("coth_undefined")) ELSE Unmodelled)
    ELSE IF token = <<"s","e","c","h">> THEN OneAtZero(a)
    ELSE IF token = <<"c","s","c","h">>
    THEN (IF IsZero(a) THEN Raises("ValueError", Msg("csch_undefined")) ELSE Unmodelled)
    ELSE IF token = <<"a","c","o","t","h">>
    THEN (IF IsZero(a) THEN Raises("ValueError", Msg("acoth_undefined")) ELSE Unmodelled)
    ELSE IF token = <<"a","s","e","c","h">>
    THEN (IF IsZero(a) THEN Raises("ValueError", Msg("asech_undefined")) ELSE ZeroAtOne(a))
    ELSE IF token = <<"a","c","s","c","h">>
    THEN (IF IsZero(a) THEN Raises("ValueError", Msg("acsch_undefined")) ELSE Unmodelled)
    ELSE IF token \in {<<"r","a","d">>, <<"d","e","g">>}
    THEN (IF isinstance_complex(a) THEN Raises("ValueError", Msg("angle_complex"))
          ELSE IF IsZero(a) THEN Returns(PyFloat(RZero))
          ELSE Unmodelled)
    ELSE Unmodelled

(***************************************************************************)
(* evaluate_rpn                                                            *)
(***************************************************************************)
DigitValue(c) ==
    CASE c = "0" -> 0 [] c = "1" -> 1 [] c = "2" -> 2 [] c = "3" -> 3 [] c = "4" -> 4
      [] c = "5" -> 5 [] c = "6" -> 6 [] c = "7" -> 7 [] c = "8" -> 8 [] c = "9" -> 9

\* the longest digit string that is converted
MaxDigits == 6

RECURSIVE DigitsValue(_)
DigitsValue(s) ==
    IF s = <<>> THEN 0 ELSE 10 * DigitsValue(SubSeq(s, 1, Len(s) - 1)) + DigitValue(s[Len(s)])

RECURSIVE Pow10(_)
Pow10(n) == IF n = 0 THEN 1 ELSE 10 * Pow10(n - 1)

\* float(token) for a token of digits and dots: a superscript digit or a
\* second dot is not converted
ParseFloat(token) ==
    LET dots == {n \in 1..Len(token) : token[n] = "."}
        digs == Replace(token, ".", <<>>)
        frac == IF dots = {} THEN 0 ELSE Len(token) - (CHOOSE n \in dots : TRUE)
    IN  IF Cardinality(dots) > 1 \/ \E n \in 1..Len(digs) : digs[n] \notin Digits
        THEN Raises("ValueError", MsgFmt("could_not_convert_float", token))
        ELSE IF Len(digs) > MaxDigits THEN Unmodelled
        ELSE Returns(PyFloat(RNorm(DigitsValue(digs), Pow10(frac))))

\* the branch of the for loop of evaluate_rpn taken by a token
EvalBranch_in(tables, token) ==
    IF StrIsDigit(Replace(token, ".", <<>>)) THEN "number"
    ELSE IF StrIsAlpha(token) /\ token \notin tables.FUNCTIONS THEN "variable"
    ELSE IF token \in DOMAIN tables.OPERATORS THEN "operator"
    ELSE IF token \in UnaryMarkers THEN "unary"
    ELSE IF token \in tables.FUNCTIONS THEN "function"
    ELSE "skip"

EvalBranch(token) == EvalBranch_in(Tables, token)

\* a local that has not been assigned yet
Unbound == Num("unbound", RZero, RZero)

EvalInit == [exc |-> "none", msg |-> NoError, stack |-> <<>>, a |-> Unbound, b |-> Unbound]

EvalRaise(c, r) == [exc |-> r.exc, msg |-> r.msg, stack |-> c.stack, a |-> c.a, b |-> c.b]

\* a lookup that reads a missing identifier as 0.0
LookupVariableOrZero(c, token, vars) ==
    [c EXCEPT !.stack = Append(c.stack, IF token \in DOMAIN vars THEN vars[token]
                                        ELSE PyFloat(RZero))]

\* the variable branch: push the bound value or raise
LookupVariable(c, token, vars) ==
    IF token \in DOMAIN vars
    THEN [c EXCEPT !.stack = Append(c.stack, vars[token])]
    ELSE EvalRaise(c, Raises("ValueError", MsgFmt("variable_not_defined", token)))

\* one iteration of the for loop; c = [exc, msg, stack, a, b], vars the bindings
EvalStep(tables, c, token, vars) ==
    LET br == EvalBranch_in(tables, token)
    IN  IF br = "number"
        THEN LET r == ParseFloat(token)
             IN  IF r.exc # "none" THEN EvalRaise(c, r)
                 ELSE [c EXCEPT !.stack = Append(c.stack, r.val)]
        ELSE IF br = "variable"
        THEN LookupVariable(c, token, vars)
        ELSE IF br = "operator"
        THEN (IF Len(c.stack) < 2
              THEN EvalRaise(c, Raises("ValueError", Msg("not_enough_values_operation")))
              ELSE LET b == Top(c.stack)
                       a == Top(Pop(c.stack))
                       rest == Pop(Pop(c.stack))
                       r == ApplyBinary(token, a, b)
                   IN  [exc |-> r.exc, msg |-> r.msg,
                        stack |-> IF r.exc = "none" THEN Append(rest, r.val) ELSE rest,
                        a |-> a, b |-> b])
        ELSE IF br = "unary"
        THEN (IF Len(c.stack) < 1
              THEN EvalRaise(c, Raises("ValueError", Msg("not_enough_values_unary")))
              ELSE LET a == Top(c.stack)
                       rest == Pop(c.stack)
                       r == ApplyUnary(token, a)
                   IN  [exc |-> r.exc, msg |-> r.msg,
                        stack |-> IF r.exc = "none" THEN Append(rest, r.val) ELSE rest,
                        a |-> a, b |-> c.b])
        ELSE IF br = "function"
        THEN (IF Len(c.stack) < 1
              THEN EvalRaise(c, Raises("ValueError", MsgFmt("not_enough_values_function", token)))
              ELSE LET a == Top(c.stack)
                       rest == Pop(c.stack)
                       r == ApplyFunction(token, a)
                   IN  [exc |-> r.exc, msg |-> r.msg,
                        stack |-> IF r.exc = "none" THEN Append(rest, r.val) ELSE rest,
                        a |-> a, b |-> c.b])
        ELSE c

\* after the loop: exactly one value must be left
EvalFinishOutcome(c) ==
    IF Len(c.stack) # 1 THEN Raises("ValueError", Msg("invalid_expression"))
    ELSE Returns(c.stack[1])

RECURSIVE EvalLoop(_, _, _, _, _)
EvalLoop(tables, c, rpn_tokens, n, vars) ==
    IF c.exc # "none" \/ n > Len(rpn_tokens) THEN c
    ELSE EvalLoop(tables, EvalStep(tables, c, rpn_tokens[n], vars), rpn_tokens, n + 1, vars)

\* what evaluate_rpn ends with once its loop has left c
EvalOutcome(c) == IF c.exc # "none" THEN Raises(c.exc, c.msg) ELSE EvalFinishOutcome(c)

\* evaluate_rpn(rpn_tokens, variables): [exc, msg, val]
evaluate_rpn_in(tables, rpn_tokens, vars) ==
    EvalOutcome(EvalLoop(tables, EvalInit, rpn_tokens, 1, vars))

evaluate_rpn(rpn_tokens, vars) == evaluate_rpn_in(Tables, rpn_tokens, vars)

(***************************************************************************)
(* polskakurvA.infix_to_prefix.  A string is a sequence of characters; the *)
(* outcome is [exc, val]: exc = "none" and the returned string, or the     *)
(* exception that escapes.                                                 *)
(***************************************************************************)
\* the precedence table of polskakurvA and of polish_gui_ultimate
precedence ==
    ("+" :> 1) @@ ("-" :> 1) @@ ("*" :> 2) @@ ("/" :> 2) @@ ("^" :> 3) @@ ("%" :> 3)

is_operator(token) == Len(token) = 1 /\ token[1] \in DOMAIN precedence

greater_precedence(op1, op2) == precedence[op1[1]] >= precedence[op2[1]]

supported_functions == {<<"s","i","n">>, <<"c","o","s">>, <<"t","a","n">>, <<"c","o","t">>,
                        <<"l","o","g">>}

PrefixReturns(val) == [exc |-> "none", val |-> val]

PrefixRaises(exc) == [exc |-> exc, val |-> <<>>]

\* str.isalnum: letters, digits and the characters with a numeric value
isalnum(token) ==
    /\ token # <<>>
    /\ \A n \in 1..Len(token) :
           token[n] \in UnicodeLetters \cup UnicodeDigits \cup {"¼", "½", "¾"}

\* re.match(r'^(sin|cos|tan|cot|log)\(.+\)$', token)
MatchesCall(token) ==
    \E f \in supported_functions :
        /\ Len(token) >= Len(f) + 3
        /\ SubSeq(token, 1, Len(f) + 1) = f \o <<"(">>
        /\ token[Len(token)] = ")"

\* re.match(r'^-?\d*\.?\d*$', token)
MatchesSignedNumber(token) ==
    LET body == IF token # <<>> /\ token[1] = "-" THEN Tail(token) ELSE token
    IN  /\ \A n \in 1..Len(body) : body[n] \in Digits \cup {"."}
        /\ Cardinality({n \in 1..Len(body) : body[n] = "."}) <= 1

\* the outer parentheses are removed when the first '(' closes at the last character
RECURSIVE OuterClosesEarly(_, _, _)
OuterClosesEarly(expr, n, count) ==
    IF n > Len(expr) THEN FALSE
    ELSE LET c == IF expr[n] = "(" THEN count + 1
                  ELSE IF expr[n] = ")" THEN count - 1 ELSE count
         IN  IF c = 0 /\ n < Len(expr) THEN TRUE ELSE OuterClosesEarly(expr, n + 1, c)

StripOuter(expression) ==
    LET expr == strip(expression)
    IN  IF expr # <<>> /\ expr[1] = "(" /\ expr[Len(expr)] = ")" /\ ~OuterClosesEarly(expr, 1, 0)
        THEN SubSeq(expr, 2, Len(expr) - 1)
        ELSE expr

\* the argument loop of tokenize: [arg, i] after the matching ')' or the end
RECURSIVE ArgumentScan(_, _, _, _)
ArgumentScan(expr, n, count, arg) ==
    IF n > Len(expr) \/ count <= 0 THEN [arg |-> arg, i |-> n]
    ELSE LET c == IF expr[n] = "(" THEN count + 1
                  ELSE IF expr[n] = ")" THEN count - 1 ELSE count
         IN  ArgumentScan(expr, n + 1, c, IF c > 0 THEN Append(arg, expr[n]) ELSE arg)

\* end (exclusive) of the number that starts at n: digits and at most one dot
RECURSIVE DottedEnd(_, _, _)
DottedEnd(expr, j, has_dot) ==
    IF j <= Len(expr) /\ (isdigit(expr[j]) \/ (expr[j] = "." /\ ~has_dot))
    THEN DottedEnd(expr, j + 1, has_dot \/ expr[j] = ".")
    ELSE j

\* one 'op a b' step: op = ops.pop(); b = vals.pop(); a = vals.pop(); vals.append(...)
Combine(c) ==
    IF Len(c.vals) < 2 THEN [c EXCEPT !.exc = "IndexError"]
    ELSE LET op == Top(c.ops)
             b == c.vals[Len(c.vals)]
             a == c.vals[Len(c.vals) - 1]
         IN  [exc |-> "none", ops |-> Pop(c.ops),
              vals |-> Append(SubSeq(c.vals, 1, Len(c.vals) - 2),
                              op \o <<" ">> \o a \o <<" ">> \o b)]

\* func = ops.pop(); arg = vals.pop(); vals.append(f"{func}({arg})")
CombineCall(c) ==
    IF c.vals = <<>> THEN [c EXCEPT !.exc = "IndexError"]
    ELSE [exc |-> "none", ops |-> Pop(c.ops),
          vals |-> Append(Pop(c.vals), Top(c.ops) \o <<"(">> \o Top(c.vals) \o <<")">>)]

\* ')' branch: while ops and ops[-1] != '('
RECURSIVE CombineUntilOpen(_)
CombineUntilOpen(c) ==
    IF c.exc = "none" /\ c.ops # <<>> /\ Top(c.ops) # <<"(">>
    THEN CombineUntilOpen(Combine(c)) ELSE c

\* operator branch: while ops and ops[-1] != '(' and greater_precedence(ops[-1], token)
RECURSIVE CombineWhileGreater(_, _)
CombineWhileGreater(c, token) ==
    IF c.exc = "none" /\ c.ops # <<>> /\ Top(c.ops) # <<"(">> /\ greater_precedence(Top(c.ops), token)
    THEN CombineWhileGreater(Combine(c), token) ELSE c

\* the final loop: while ops
RECURSIVE CombineAll(_)
CombineAll(c) ==
    IF c.exc # "none" \/ c.ops = <<>> THEN c
    ELSE IF Top(c.ops) \in supported_functions THEN CombineAll(CombineCall(c))
    ELSE CombineAll(Combine(c))

\* one iteration of the for loop of to_prefix; c = [exc, ops, vals]
polska_to_prefix_step(c, token) ==
    IF isalnum(token) \/ MatchesCall(token) \/ MatchesSignedNumber(token)
    THEN [c EXCEPT !.vals = Append(c.vals, token)]
    ELSE IF token = <<"(">> THEN [c EXCEPT !.ops = Append(c.ops, token)]
    ELSE IF token = <<")">>
    THEN LET p == CombineUntilOpen(c)
         IN  IF p.exc # "none" THEN p
             ELSE IF p.ops = <<>> THEN [p EXCEPT !.exc = "IndexError"]
             ELSE LET q == [p EXCEPT !.ops = Pop(p.ops)]
                  IN  IF q.ops # <<>> /\ Top(q.ops) \in supported_functions
                      THEN CombineCall(q) ELSE q
    ELSE IF is_operator(token)
    THEN LET p == CombineWhileGreater(c, token)
         IN  IF p.exc # "none" THEN p ELSE [p EXCEPT !.ops = Append(p.ops, token)]
    ELSE IF token \in supported_functions THEN [c EXCEPT !.ops = Append(c.ops, token)]
    ELSE c

RECURSIVE polska_to_prefix_loop(_, _, _)
polska_to_prefix_loop(c, tokens, n) ==
    IF c.exc # "none" \/ n > Len(tokens) THEN c
    ELSE polska_to_prefix_loop(polska_to_prefix_step(c, tokens[n]), tokens, n + 1)

polska_to_prefix(tokens) ==
    LET c == CombineAll(polska_to_prefix_loop([exc |-> "none", ops |-> <<>>, vals |-> <<>>],
                                              tokens, 1))
    IN  IF c.exc # "none" THEN PrefixRaises(c.exc)
        ELSE IF c.vals = <<>> THEN PrefixRaises("IndexError")
        ELSE PrefixReturns(c.vals[1])

RECURSIVE polska_infix_to_prefix(_)
RECURSIVE polska_tokenize(_, _, _)
\* tokenize(expr) from index n on: [exc, tokens]
polska_tokenize(expr, n, tokens) ==
    IF n > Len(expr) THEN [exc |-> "none", tokens |-> tokens]
    ELSE IF isspace(expr[n]) THEN polska_tokenize(expr, n + 1, tokens)
    ELSE IF isalpha(expr[n])
    THEN LET j == AlphaEnd(expr, n)
             identifier == SubSeq(expr, n, j - 1)
         IN  IF identifier \in supported_functions /\ j <= Len(expr) /\ expr[j] = "("
             THEN LET sc == ArgumentScan(expr, j + 1, 1, <<>>)
                      inner == polska_infix_to_prefix(sc.arg)
                  IN  IF inner.exc # "none" THEN [exc |-> inner.exc, tokens |-> tokens]
                      ELSE polska_tokenize(expr, sc.i,
                               Append(tokens, identifier \o <<"(">> \o inner.val \o <<")">>))
             ELSE polska_tokenize(expr, j, Append(tokens, identifier))
    ELSE IF isdigit(expr[n]) \/ expr[n] = "."
    THEN LET j == DottedEnd(expr, n, FALSE)
         IN  polska_tokenize(expr, j, Append(tokens, SubSeq(expr, n, j - 1)))
    ELSE IF expr[n] \in {"+", "-", "*", "/", "%", "^", "(", ")"}
    THEN polska_tokenize(expr, n + 1, Append(tokens, <<expr[n]>>))
    ELSE [exc |-> "ValueError", tokens |-> tokens]

\* infix_to_prefix(expression) of polskakurvA
polska_infix_to_prefix(expression) ==
    LET t == polska_tokenize(StripOuter(expression), 1, <<>>)
    IN  IF t.exc # "none" THEN PrefixRaises(t.exc) ELSE polska_to_prefix(t.tokens)

(***************************************************************************)
(* Plotter.infix_to_prefix of polish_gui_ultimate                          *)
(***************************************************************************)
funcs == supported_functions \cup
         {<<"a","s","i","n">>, <<"a","c","o","s">>, <<"a","t","a","n">>, <<"a","c","o","t">>,
          <<"s","q","r","t">>, <<"e","x","p">>}

\* re.match(r'^\d+\.?\d*$', token)
MatchesNumber(token) ==
    /\ token # <<>>
    /\ token[1] \in Digits
    /\ \A n \in 1..Len(token) : token[n] \in Digits \cup {"."}
    /\ Cardinality({n \in 1..Len(token) : token[n] = "."}) <= 1

\* tokenize(expr) from index n on: [exc, tokens]
RECURSIVE plotter_tokenize(_, _, _)
plotter_tokenize(expr, n, tokens) ==
    IF n > Len(expr) THEN [exc |-> "none", tokens |-> tokens]
    ELSE IF isspace(expr[n]) THEN plotter_tokenize(expr, n + 1, tokens)
    ELSE IF isalpha(expr[n])
    THEN LET j == AlphaEnd(expr, n)
         IN  plotter_tokenize(expr, j, Append(tokens, SubSeq(expr, n, j - 1)))
    ELSE IF isdigit(expr[n]) \/ expr[n] = "."
    THEN LET j == NumberEnd(expr, n)
         IN  plotter_tokenize(expr, j, Append(tokens, SubSeq(expr, n, j - 1)))
    ELSE IF expr[n] \in {"+", "-", "*", "/", "%", "^", "(", ")"}
    THEN plotter_tokenize(expr, n + 1, Append(tokens, <<expr[n]>>))
    ELSE [exc |-> "ValueError", tokens |-> tokens]

\* operator branch: while stack and stack[-1] != '(' and greater_precedence(stack[-1], token)
RECURSIVE PopWhileGreater(_, _, _)
PopWhileGreater(output, stack, token) ==
    IF stack # <<>> /\ Top(stack) # <<"(">> /\ greater_precedence(Top(stack), token)
    THEN PopWhileGreater(Append(output, Top(stack)), Pop(stack), token)
    ELSE [output |-> output, stack |-> stack]

\* one iteration of the while loop of to_prefix; c = [output, stack]
plotter_to_prefix_step(c, token) ==
    IF isalnum(token) \/ MatchesNumber(token) \/ token = <<"x">>
    THEN [c EXCEPT !.output = Append(c.output, token)]
    ELSE IF token \in funcs THEN [c EXCEPT !.stack = Append(c.stack, token)]
    ELSE IF token = <<"(">> THEN [c EXCEPT !.stack = Append(c.stack, token)]
    ELSE IF token = <<")">>
    THEN LET p == PopUntilOpen(c.output, c.stack)
         IN  IF p.stack # <<>> /\ Top(p.stack) = <<"(">>
             THEN LET s2 == Pop(p.stack)
                  IN  IF s2 # <<>> /\ Top(s2) \in funcs
                      THEN [output |-> Append(p.output, Top(s2)), stack |-> Pop(s2)]
                      ELSE [output |-> p.output, stack |-> s2]
             ELSE p
    ELSE IF is_operator(token)
    THEN LET p == PopWhileGreater(c.output, c.stack, token)
         IN  [output |-> p.output, stack |-> Append(p.stack, token)]
    ELSE c

RECURSIVE plotter_to_prefix_loop(_, _, _)
plotter_to_prefix_loop(c, tokens, n) ==
    IF n > Len(tokens) THEN c
    ELSE plotter_to_prefix_loop(plotter_to_prefix_step(c, tokens[n]), tokens, n + 1)

\* to_prefix(tokens): pop the rest of the stack, then ' '.join(reversed(output))
plotter_to_prefix(tokens) ==
    LET c == plotter_to_prefix_loop([output |-> <<>>, stack |-> <<>>], tokens, 1)
    IN  join(Reverse(c.output \o Reverse(c.stack)))

\* infix_to_prefix(expression) of Plotter
plotter_infix_to_prefix(expression) ==
    LET t == plotter_tokenize(expression, 1, <<>>)
    IN  IF t.exc # "none" THEN PrefixRaises("ValueError")
        ELSE PrefixReturns(plotter_to_prefix(t.tokens))

(***************************************************************************)
(* function_main: the converter without unary signs and functions          *)
(***************************************************************************)
\* OPERATORS of function_main: the priority of each operator
fm_OPERATORS == (<<"+">> :> 1) @@ (<<"-">> :> 1) @@ (<<"*">> :> 2) @@ (<<"/">> :> 2)

\* str.replace(old, new) for a string old, from position n on
RECURSIVE ReplaceAll(_, _, _, _)
ReplaceAll(s, n, old, new) ==
    IF n > Len(s) THEN <<>>
    ELSE IF n + Len(old) - 1 <= Len(s) /\ SubSeq(s, n, n + Len(old) - 1) = old
    THEN new \o ReplaceAll(s, n + Len(old), old, new)
    ELSE <<s[n]>> \o ReplaceAll(s, n + 1, old, new)

\* the three replacements of clean_expression for one character
Unspace(s, char) ==
    LET s1 == ReplaceAll(s, 1, <<" ", char, " ">>, <<char>>)
        s2 == ReplaceAll(s1, 1, <<" ", char>>, <<char>>)
    IN  ReplaceAll(s2, 1, <<char, " ">>, <<char>>)

\* ExpressionValidator.clean_expression
fm_clean_expression(expression) ==
    LET e0 == join(split(CutComment(expression)))
        e1 == Unspace(e0, "+")
        e2 == Unspace(e1, "-")
        e3 == Unspace(e2, "*")
        e4 == Unspace(e3, "/")
        e5 == Unspace(e4, "(")
        e6 == Unspace(e5, ")")
    IN  strip(e6)

\* the characters of the allowed pattern of function_main
fm_AllowedChars == Digits \cup Letters \cup {"+", "-", "*", "/", "(", ")", "."} \cup Spaces

\* the checks of validate_expression on the cleaned string e
fm_ValidateCleaned(e) ==
    LET badpos == {n \in 1..Len(e) : e[n] \notin fm_AllowedChars}
    IN  IF e = <<>> THEN [valid |-> FALSE, error |-> Msg("empty")]
        ELSE IF badpos # {}
        THEN [valid |-> FALSE,
              error |-> MsgFmt("invalid_char",
                               <<e[CHOOSE n \in badpos : \A m \in badpos : n <= m]>>)]
        ELSE IF BracketScan(e, 1, 0) = "close"
        THEN [valid |-> FALSE, error |-> Msg("unmatched_close")]
        ELSE IF BracketScan(e, 1, 0) = "open"
        THEN [valid |-> FALSE, error |-> Msg("unmatched_open")]
        ELSE [valid |-> TRUE, error |-> NoError]

\* ExpressionValidator.validate_expression
fm_validate_expression(expression) == fm_ValidateCleaned(fm_clean_expression(expression))

\* get_token_type of function_main
fm_get_token_type(token) ==
    IF StrIsDigit(Replace(token, ".", <<>>)) \/ StrIsAlpha(token) THEN "operand"
    ELSE IF token \in DOMAIN fm_OPERATORS THEN "operator"
    ELSE IF token = <<"(">> THEN "open"
    ELSE IF token = <<")">> THEN "close"
    ELSE "unknown"

\* end (exclusive) of the run of \d that starts at j
RECURSIVE DigitsEnd(_, _)
DigitsEnd(s, j) == IF j <= Len(s) /\ s[j] \in Digits THEN DigitsEnd(s, j + 1) ELSE j

\* end (exclusive) of the run of [a-zA-Z] that starts at j
RECURSIVE LettersEnd(_, _)
LettersEnd(s, j) == IF j <= Len(s) /\ s[j] \in Letters THEN LettersEnd(s, j + 1) ELSE j

\* re.findall of the token pattern \d+\.?\d*|[a-zA-Z]+|[+\-*/()] from n on
RECURSIVE FindAll(_, _, _)
FindAll(s, n, found) ==
    IF n > Len(s) THEN found
    ELSE IF s[n] \in Digits
    THEN LET d == DigitsEnd(s, n)
             j == IF d <= Len(s) /\ s[d] = "." THEN DigitsEnd(s, d + 1) ELSE d
         IN  FindAll(s, j, Append(found, SubSeq(s, n, j - 1)))
    ELSE IF s[n] \in Letters
    THEN LET j == LettersEnd(s, n)
         IN  FindAll(s, j, Append(found, SubSeq(s, n, j - 1)))
    ELSE IF s[n] \in {"+", "-", "*", "/", "(", ")"}
    THEN FindAll(s, n + 1, Append(found, <<s[n]>>))
    ELSE FindAll(s, n + 1, found)

\* ''.join(tokens)
RECURSIVE Concat(_)
Concat(words) == IF words = <<>> THEN <<>> ELSE Head(words) \o Concat(Tail(words))

\* the comparison of the tokens found in e with e
fm_Reconstruct(e, found) ==
    LET reconstructed == Concat(found)
        differ == {n \in 1..Len(e) : n > Len(reconstructed) \/ e[n] # reconstructed[n]}
    IN  IF reconstructed # e /\ differ # {}
        THEN [kind |-> "raise", tokens |-> <<>>,
              error |-> MsgFmt("invalid_char",
                               <<e[CHOOSE n \in differ : \A m \in differ : n <= m]>>)]
        ELSE [kind |-> "tokens", tokens |-> found, error |-> NoError]

\* the scan of the string e without its spaces
fm_FindTokens(e) == fm_Reconstruct(e, FindAll(e, 1, <<>>))

\* tokenize of function_main: [kind, tokens, error]
fm_tokenize(expression) ==
    fm_FindTokens(Replace(Replace(fm_clean_expression(expression), ",", <<".">>), " ", <<>>))

\* the sequence loop of ExpressionValidator.validate_tokens from token n on
RECURSIVE fm_SequenceLoop(_, _, _)
fm_SequenceLoop(tokens, n, prev_type) ==
    IF n > Len(tokens) THEN [valid |-> TRUE, error |-> NoError]
    ELSE LET token == tokens[n]
             curr_type == fm_get_token_type(token)
             No(key) == [valid |-> FALSE, error |-> Msg(key)]
             ok == fm_SequenceLoop(tokens, n + 1, curr_type)
         IN  IF curr_type = "operand"
             THEN (IF prev_type = "operand" THEN No("two_operands")
                   ELSE IF prev_type = "close" THEN No("operand_after_close")
                   ELSE ok)
             ELSE IF curr_type = "operator"
             THEN (IF n = 1 THEN No("starts_with_op")
                   ELSE IF prev_type = "operator" THEN No("two_operators")
                   ELSE IF prev_type = "open" THEN No("op_after_open")
                   ELSE IF n = Len(tokens) THEN No("ends_with_op")
                   ELSE ok)
             ELSE IF token = <<"(">>
             THEN (IF prev_type \in {"operand", "close"} THEN No("open_after_operand")
                   ELSE ok)
             ELSE IF token = <<")">>
             THEN (IF n = 1 THEN No("starts_with_close")
                   ELSE IF prev_type = "operator" THEN No("close_after_op")
                   ELSE IF prev_type = "open" THEN No("close_after_open")
                   ELSE ok)
             ELSE ok

\* ExpressionValidator.validate_tokens
fm_validate_tokens(tokens) ==
    IF tokens = <<>> THEN [valid |-> FALSE, error |-> Msg("no_tokens")]
    ELSE IF \E n \in 1..(Len(tokens) - 1) : tokens[n] = <<"(">> /\ tokens[n + 1] = <<")">>
    THEN [valid |-> FALSE, error |-> Msg("empty_brackets")]
    ELSE fm_SequenceLoop(tokens, 1, "none")

\* the operator branch of infix_to_rpn of function_main
RECURSIVE fm_PopForOperator(_, _, _)
fm_PopForOperator(output, stack, token) ==
    IF /\ stack # <<>>
       /\ Top(stack) # <<"(">>
       /\ Top(stack) \in DOMAIN fm_OPERATORS
       /\ fm_OPERATORS[Top(stack)] >= fm_OPERATORS[token]
    THEN fm_PopForOperator(Append(output, Top(stack)), Pop(stack), token)
    ELSE [output |-> output, stack |-> stack]

\* one iteration of the for loop of infix_to_rpn of function_main
fm_RpnStep(c, token) ==
    LET token_type == fm_get_token_type(token)
    IN  IF token_type = "operand" THEN [c EXCEPT !.output = Append(c.output, token)]
        ELSE IF token = <<"(">> THEN [c EXCEPT !.stack = Append(c.stack, token)]
        ELSE IF token = <<")">>
        THEN LET p == PopUntilOpen(c.output, c.stack)
             IN  IF p.stack # <<>> THEN [output |-> p.output, stack |-> Pop(p.stack)] ELSE p
        ELSE IF token_type = "operator"
        THEN LET p == fm_PopForOperator(c.output, c.stack, token)
             IN  [output |-> p.output, stack |-> Append(p.stack, token)]
        ELSE c

RECURSIVE fm_RpnLoop(_, _, _)
fm_RpnLoop(c, tokens, n) ==
    IF n > Len(tokens) THEN c ELSE fm_RpnLoop(fm_RpnStep(c, tokens[n]), tokens, n + 1)

\* the final loop of infix_to_rpn: the stack is emptied onto the output
fm_RpnFinish(c) == c.output \o Reverse(c.stack)

\* infix_to_rpn of function_main
fm_infix_to_rpn(tokens) == fm_RpnFinish(fm_RpnLoop([output |-> <<>>, stack |-> <<>>], tokens, 1))

\* the result of convert_to_rpn from the results v, t and w of its three checks
fm_ConvertChecked(v, t, w) ==
    LET No(err) == [success |-> FALSE, rpn |-> <<>>, error |-> err]
    IN  IF ~v.valid THEN No(v.error)
        ELSE IF t.kind = "raise" THEN No(t.error)
        ELSE IF ~w.valid THEN No(w.error)
        ELSE [success |-> TRUE, rpn |-> fm_infix_to_rpn(t.tokens), error |-> NoError]

fm_ConvertTokens(v, t) == fm_ConvertChecked(v, t, fm_validate_tokens(t.tokens))

\* convert_to_rpn of function_main: [success, rpn, error]
fm_convert_to_rpn(expression) ==
    fm_ConvertTokens(fm_validate_expression(expression), fm_tokenize(expression))

(***************************************************************************)
(* interactive_mode and main: the bindings and the commands                *)
(***************************************************************************)
\* math.pi and math.e: two floats that the exact arithmetic above does not
\* represent, kept as two distinct values
math_pi == PyFloat(<<1, 0>>)

math_e == PyFloat(<<2, 0>>)

\* the dictionary literal that interactive_mode and main start with
Constants ==
    (<<"p", "i">> :> math_pi) @@ (<<"e">> :> math_e) @@
    (<<"P", "I">> :> math_pi) @@ (<<"E">> :> math_e)

LowerCase ==
    <<"a", "b", "c", "d", "e", "f", "g", "h", "i", "j", "k", "l", "m",
      "n", "o", "p", "q", "r", "s", "t", "u", "v", "w", "x", "y", "z",
      "à", "á", "â", "ã", "ä", "å", "æ", "ç", "è", "é", "ê", "ë", "ì", "í", "î",
      "ï", "ð", "ñ", "ò", "ó", "ô", "õ", "ö", "ø", "ù", "ú", "û", "ü", "ý", "þ">>

UpperCase ==
    <<"A", "B", "C", "D", "E", "F", "G", "H", "I", "J", "K", "L", "M",
      "N", "O", "P", "Q", "R", "S", "T", "U", "V", "W", "X", "Y", "Z",
      "À", "Á", "Â", "Ã", "Ä", "Å", "Æ", "Ç", "È", "É", "Ê", "Ë", "Ì", "Í", "Î",
      "Ï", "Ð", "Ñ", "Ò", "Ó", "Ô", "Õ", "Ö", "Ø", "Ù", "Ú", "Û", "Ü", "Ý", "Þ">>

\* str.lower()
lower(s) ==
    [n \in 1..Len(s) |->
        IF \E m \in 1..Len(UpperCase) : UpperCase[m] = s[n]
        THEN LowerCase[CHOOSE m \in 1..Len(UpperCase) : UpperCase[m] = s[n]]
        ELSE s[n]]

\* str.startswith(prefix)
startswith(s, pre) == Len(s) >= Len(pre) /\ SubSeq(s, 1, Len(pre)) = pre

\* a digit part of the float() grammar: digits, single underscores between them
DigitPart(s) ==
    /\ s # <<>>
    /\ s[1] \in Digits /\ s[Len(s)] \in Digits
    /\ \A n \in 1..Len(s) : s[n] \in Digits \cup {"_"}
    /\ \A n \in 1..(Len(s) - 1) : ~(s[n] = "_" /\ s[n + 1] = "_")

\* the mantissa of the float() grammar: digit parts around at most one dot
FloatMantissa(s) ==
    LET dots == {n \in 1..Len(s) : s[n] = "."}
        d == CHOOSE n \in dots : TRUE
        whole == SubSeq(s, 1, d - 1)
        frac == SubSeq(s, d + 1, Len(s))
    IN  IF dots = {} THEN DigitPart(s)
        ELSE /\ Cardinality(dots) = 1
             /\ whole # <<>> \/ frac # <<>>
             /\ whole = <<>> \/ DigitPart(whole)
             /\ frac = <<>> \/ DigitPart(frac)

\* float(text) of the set command: an optional sign, then digits with at
\* most one dot (a second dot raises ValueError, whose message quotes the
\* whole text, sign included); the other spellings that float() accepts (inf, nan,
\* exponents, underscores) give a float that is not represented; every other
\* text raises ValueError
float_of_text(text) ==
    LET signed == text # <<>> /\ text[1] \in {"+", "-"}
        body == IF signed THEN Tail(text) ELSE text
        numeric == /\ \A n \in 1..Len(body) : body[n] \in Digits \cup {"."}
                   /\ \E n \in 1..Len(body) : body[n] \in Digits
        special == lower(body) \in {<<"i", "n", "f">>, <<"n", "a", "n">>,
                                    <<"i", "n", "f", "i", "n", "i", "t", "y">>}
        marks == {n \in 1..Len(body) : body[n] \in {"e", "E"}}
        e == CHOOSE n \in marks : \A m \in marks : n <= m
        power == SubSeq(body, e + 1, Len(body))
        exponent == /\ marks # {}
                    /\ FloatMantissa(SubSeq(body, 1, e - 1))
                    /\ DigitPart(IF power # <<>> /\ power[1] \in {"+", "-"}
                                 THEN Tail(power) ELSE power)
    IN  IF numeric
        THEN LET r == ParseFloat(body)
             IN  IF r.exc = "ValueError"
                 THEN Raises("ValueError", MsgFmt("could_not_convert_float", text))
                 ELSE IF r.exc = "none" /\ signed /\ text[1] = "-"
                 THEN Returns(PyFloat(RNeg(r.val.re)))
                 ELSE r
        ELSE IF special \/ exponent \/ (marks = {} /\ FloatMantissa(body)) THEN Unmodelled
        ELSE Raises("ValueError", MsgFmt("could_not_convert_float", text))

\* the clear command with an empty dictionary in place of its literal
cleared_variables_empty == <<>>

\* the dictionary literal of the clear command
cleared_variables ==
    (<<"p", "i">> :> math_pi) @@ (<<"e">> :> math_e) @@
    (<<"P", "I">> :> math_pi) @@ (<<"E">> :> math_e)

\* the branch of the loop body of interactive_mode taken by a stripped line
command_branch(user_input) ==
    LET low == lower(user_input)
    IN  IF low \in {<<"q", "u", "i", "t">>, <<"e", "x", "i", "t">>, <<"q">>} THEN "quit"
        ELSE IF low = <<"v", "a", "r", "s">> THEN "vars"
        ELSE IF low = <<"c", "l", "e", "a", "r">> THEN "clear"
        ELSE IF startswith(low, <<"s", "e", "t", " ">>) THEN "set"
        ELSE IF user_input = <<>> THEN "empty"
        ELSE "expression"

\* the set command: the bindings after it
set_variable(user_input, vars) ==
    LET parts == split(user_input)
    IN  IF Len(parts) >= 3
        THEN LET var_value == float_of_text(parts[3])
             IN  IF var_value.exc = "ValueError" THEN vars
                 ELSE LET v == IF var_value.exc = "none" THEN var_value.val
                               ELSE PyFloat(Bad)
                      IN  [name \in DOMAIN vars \cup {parts[2]} |->
                              IF name = parts[2] THEN v ELSE vars[name]]
        ELSE vars

(***************************************************************************)
(* The program: convert_to_rpn followed by evaluate_rpn, as the callers    *)
(* (interactive_mode, main) run them, one step of each loop at a time.     *)
(***************************************************************************)
VARIABLES
    expression,     \* the input string
    entry,          \* what the caller runs: "once", "random" or "repeated"
    runs,           \* number of further calls of evaluate_rpn on the same postfix
    variables,      \* the bindings passed to evaluate_rpn
    pc,             \* position in the pipeline
    tokens,         \* result of tokenize
    i,              \* infix_to_rpn: index of the next token; tokenize: its local i
                    \* (both 1-based)
    output,         \* infix_to_rpn: output list
    stack,          \* infix_to_rpn: operator stack
    expect_unary,   \* infix_to_rpn: flag
    success,        \* convert_to_rpn: first component of the result
    rpn,            \* convert_to_rpn: second component of the result
    error,          \* convert_to_rpn: third component of the result
    k,              \* evaluate_rpn: index of the next token (1-based)
    estack,         \* evaluate_rpn: value stack
    a,              \* evaluate_rpn: local a
    b,              \* evaluate_rpn: local b
    exc,            \* evaluate_rpn: exception raised ("none" if none)
    exc_msg,        \* evaluate_rpn: its message
    result,         \* evaluate_rpn: returned value
    prefix,         \* infix_to_prefix: what the call returned or raised
    module,         \* the module-level tables of function_main_lat, as the running
                    \* operations find them
    temp_tokens,    \* tokenize: the (kind, text) pairs found so far
    other           \* a second invocation of the engine, on its own arguments

vars == <<expression, entry, runs, variables, pc, tokens, i, output, stack, expect_unary,
          success, rpn, error, k, estack, a, b, exc, exc_msg, result, prefix, module,
          temp_tokens, other>>

convVars == <<i, output, stack, expect_unary>>

evalVars == <<k, estack, a, b, exc, exc_msg, result>>

NoResult == Num("none", RZero, RZero)

\* the variables of the other programs of the repository
sideVars == <<prefix, module, temp_tokens, other>>

\* the second invocation: its arguments, its position, the number of calls
\* of convert_to_rpn made, what the calls returned or raised
Invocation(e, vs) ==
    [expression |-> e, variables |-> vs, pc |-> "start", calls |-> 0,
     conversion |-> [success |-> FALSE, rpn |-> <<>>, error |-> NoError],
     previous |-> [success |-> FALSE, rpn |-> <<>>, error |-> NoError],
     outcome |-> [exc |-> "none", msg |-> NoError, val |-> NoResult]]

\* no second invocation
NoOther == [Invocation(<<>>, <<>>) EXCEPT !.pc = "none"]

\* infix_to_prefix has not returned yet
NoPrefix == [exc |-> "none", val |-> <<>>, returned |-> FALSE]

(* The callers.  "once": convert_to_rpn, then evaluate_rpn (the loop body  *)
(* of interactive_mode).  "random": evaluate_with_random_variables (main). *)
(* "repeated": convert_to_rpn, then evaluate_rpn called again on the       *)
(* returned list with other bindings.                                      *)
EmptyBindings == <<>>

XIsTwo == (<<"x">> :> PyInt(2))

\* the bindings: x = 2.0, y is unbound, z = 0j, w = (1+1j), c = (2+0j), n = 0, m = 3
SampleBindings ==
    (<<"x">> :> PyFloat(<<2, 1>>)) @@
    (<<"z">> :> PyComplex(RZero, RZero)) @@
    (<<"w">> :> PyComplex(ROne, ROne)) @@
    (<<"c">> :> PyComplex(<<2, 1>>, RZero)) @@
    (<<"n">> :> PyInt(0)) @@
    (<<"m">> :> PyInt(3))

\* the defaults of rnd_min and rnd_max
rnd_min == -10

rnd_max == 10

\* the pairs (rnd_min, rnd_max) that a caller passes: the defaults, and the
\* pair that main receives from the arguments -min 2 -max 4
RandomRanges == {<<RInt(rnd_min), RInt(rnd_max)>>, <<RInt(2), RInt(4)>>}

\* the number of leading bits of a draw that are represented
DrawBits == 2

\* random.random(): a multiple of 2^-53 in [0, 1).  The multiples of
\* 2^-DrawBits are represented, every other draw is not
RandomDraws == {RNorm(n, 2^DrawBits) : n \in 0..(2^DrawBits - 1)} \cup {Bad}

\* random.uniform(low, high) is low + (high - low) * random(); with a draw that is not
\* represented the value is not represented either
uniform(low, high, draw) == PyFloat(RAdd(low, RMul(RSub(high, low), draw)))

\* values that random.uniform(rnd_min, rnd_max) can return for a pair
RandomValues(range) == {uniform(range[1], range[2], draw) : draw \in RandomDraws}

\* the largest number of further calls on one postfix
MaxRuns == 2

\* x = 1.0 with y = 4.0, and with y = 0.0
XOverFour == (<<"x">> :> PyFloat(ROne)) @@ (<<"y">> :> PyFloat(<<4, 1>>))

XOverZero == (<<"x">> :> PyFloat(ROne)) @@ (<<"y">> :> PyFloat(RZero))

\* the bindings of a further call
RebindChoices == {EmptyBindings, XIsTwo, XOverFour, XOverZero}

\* "x+1"
ExXPlus1 == <<"x", "+", "1">>

\* "x/y"
ExXOverY == <<"x", "/", "y">>

\* the state in which the caller of entry point start has its arguments
\* the state in which a caller has its arguments: an expression string, or
\* for the callers of infix_to_rpn and of evaluate_rpn a token list
InitFull(Expressions, Bindings, Entries, start, Others, TokenLists, Postfixes) ==
    /\ other \in Others
    /\ module = Tables
    /\ temp_tokens = <<>>
    /\ expression \in Expressions
    /\ variables \in Bindings
    /\ entry \in Entries
    /\ runs = 0
    /\ pc = start
    /\ tokens \in TokenLists
    /\ i = 1
    /\ output = <<>>
    /\ stack = <<>>
    /\ expect_unary = TRUE
    /\ success = FALSE
    /\ rpn \in Postfixes
    /\ error = NoError
    /\ k = 1
    /\ estack = <<>>
    /\ a = Unbound
    /\ b = Unbound
    /\ exc = "none"
    /\ exc_msg = NoError
    /\ result = NoResult
    /\ prefix = NoPrefix

InitState(Expressions, Bindings, Entries, start, Others) ==
    InitFull(Expressions, Bindings, Entries, start, Others, {<<>>}, {<<>>})

\* a direct call infix_to_rpn(tokens)
InitTokens(TokenLists) ==
    InitFull({<<>>}, {EmptyBindings}, {"infix_to_rpn"}, "infix_to_rpn", {NoOther},
             TokenLists, {<<>>})

\* a direct call evaluate_rpn(rpn_tokens, variables)
InitPostfix(Postfixes, Bindings) ==
    InitFull({<<>>}, Bindings, {"evaluate_rpn"}, "evaluate_rpn", {NoOther}, {<<>>}, Postfixes)

\* ['sin', '*', '1']
TkSinTimes1 == <<<<"s", "i", "n">>, <<"*">>, <<"1">>>>

\* ['$', '1']
TkDollar1 == <<<<"$">>, <<"1">>>>

\* ['1', '(']
Pf1Open == <<<<"1">>, <<"(">>>>

InitAt(Expressions, Bindings, Entries, start) ==
    InitState(Expressions, Bindings, Entries, start, {NoOther})

InitCall(Expressions, Bindings, Entries) ==
    InitAt(Expressions, Bindings, Entries, "validate_expression")

\* "a-b"
ExAMinusB == <<"a", "-", "b">>

\* "x **2+1"
ExSpacedPower == <<"x", " ", "*", "*", "2", "+", "1">>

\* "$"
ExDollar == <<"$">>

\* "é²": a letter and a digit that only str.isalpha() and str.isdigit() know
ExAccentSquared == <<"é", "²">>

\* "a" line feed "-b"
ExALineMinusB == <<"a", "\n", "-", "b">>

\* the inputs of a specification, run once, and two expressions run by the
\* other callers
InitWith(Expressions, Bindings) ==
    \/ InitCall(Expressions, Bindings, {"once"})
    \/ InitCall({ExXPlus1, ExXOverY}, {XIsTwo}, {"random", "repeated"})
    \/ InitAt({ExAMinusB, ExALineMinusB}, {EmptyBindings}, {"polskakurvA", "plotter"},
              "infix_to_prefix")
    \/ InitAt({<<>>}, {Constants}, {"interactive"}, "prompt")
    \/ InitState({ExXPlus1}, {XIsTwo}, {"concurrent"}, "validate_expression",
                 {Invocation(ExXOverY, XOverFour)})
    \/ InitTokens({TkSinTimes1, TkDollar1})
    \/ InitAt({ExXPlus1}, {EmptyBindings}, {"function_main"}, "convert_to_rpn")
    \/ InitAt({ExSpacedPower, ExDollar, ExAccentSquared}, {EmptyBindings}, {"tokenize"},
              "tokenize_clean")
    \/ InitPostfix({Pf1Open}, {EmptyBindings})

\* convert_to_rpn returns (False, None, err)
Fail(err) ==
    /\ pc' = "done"
    /\ success' = FALSE
    /\ error' = err
    /\ UNCHANGED <<rpn>>

ValidateExpression ==
    /\ pc = "validate_expression"
    /\ LET v == validate_expression(expression)
       IN  IF v.valid
           THEN pc' = "tokenize" /\ UNCHANGED <<success, error, rpn>>
           ELSE Fail(v.error)
    /\ UNCHANGED <<sideVars, expression, entry, runs, variables, tokens, convVars, evalVars>>

Tokenize ==
    /\ pc = "tokenize"
    /\ LET t == tokenize(expression)
       IN  IF t.kind = "raise" THEN Fail(t.error) /\ UNCHANGED tokens
           ELSE IF t.kind = "none" THEN Fail(Msg("two_operands")) /\ UNCHANGED tokens
           ELSE /\ tokens' = t.tokens
                /\ pc' = "validate_tokens"
                /\ UNCHANGED <<success, error, rpn>>
    /\ UNCHANGED <<sideVars, expression, entry, runs, variables, convVars, evalVars>>

ValidateTokens ==
    /\ pc = "validate_tokens"
    /\ LET v == validate_tokens(module, tokens)
       IN  IF v.valid
           THEN pc' = "infix_to_rpn" /\ UNCHANGED <<success, error, rpn>>
           ELSE Fail(v.error)
    /\ UNCHANGED <<sideVars, expression, entry, runs, variables, tokens, convVars, evalVars>>

\* one iteration of the for loop of infix_to_rpn, by the branch it takes
Convert(branch) ==
    /\ pc = "infix_to_rpn"
    /\ i <= Len(tokens)
    /\ TokenBranch_in(module, tokens[i], expect_unary) = branch
    /\ LET c == RpnStep(module,
                        [output |-> output, stack |-> stack, expect_unary |-> expect_unary],
                        tokens[i])
       IN  /\ output' = c.output
           /\ stack' = c.stack
           /\ expect_unary' = c.expect_unary
    /\ i' = i + 1
    /\ UNCHANGED <<sideVars, expression, entry, runs, variables, pc, tokens, success, rpn, error, evalVars>>

ConvertOperand == Convert("operand")

ConvertFunction == Convert("function")

ConvertOpen == Convert("open")

ConvertClose == Convert("close")

ConvertUnary == Convert("unary")

ConvertBinary == Convert("binary")

\* a token that no branch of the loop handles
ConvertSkip == Convert("skip")

\* "Pop remaining operators", return output; convert_to_rpn returns (True, rpn, None)
ConvertFinish ==
    /\ pc = "infix_to_rpn"
    /\ i > Len(tokens)
    /\ output' = RpnFinish([output |-> output, stack |-> stack, expect_unary |-> expect_unary])
    /\ stack' = <<>>
    /\ rpn' = output'
    /\ success' = TRUE
    /\ pc' = IF entry \in {"random", "main"} THEN "assign_random"
             ELSE IF entry = "infix_to_rpn" THEN "returned"
             ELSE "evaluate_rpn"
    /\ UNCHANGED <<sideVars, expression, entry, runs, variables, tokens, i, expect_unary, error, evalVars>>

\* evaluate_with_random_variables: every identifier of the postfix that the
\* bindings lack is given a random value, stored in the map that was passed
AssignRandom ==
    /\ pc = "assign_random"
    /\ LET undefined_vars ==
               {rpn[n] : n \in {m \in 1..Len(rpn) : /\ StrIsAlpha(rpn[m])
                                                    /\ rpn[m] \notin module.FUNCTIONS
                                                    /\ rpn[m] \notin DOMAIN variables}}
       IN  \E range \in RandomRanges :
               \E value \in [undefined_vars -> RandomValues(range)] :
                   variables' = [var \in undefined_vars \cup DOMAIN variables |->
                                    IF var \in undefined_vars THEN value[var] ELSE variables[var]]
    /\ pc' = "evaluate_rpn"
    /\ UNCHANGED <<sideVars, expression, entry, runs, tokens, convVars, success, rpn, error, evalVars>>

\* the locals of evaluate_rpn after an iteration that has left c
EvaluateLocals(c) ==
    /\ estack' = c.stack
    /\ a' = c.a
    /\ b' = c.b
    /\ exc' = c.exc
    /\ exc_msg' = c.msg
    /\ IF c.exc = "none" THEN k' = k + 1 /\ pc' = pc ELSE k' = k /\ pc' = "done"

\* one iteration of the for loop of evaluate_rpn, by the branch it takes;
\* an exception ends the evaluation with k at the token that raised it
Evaluate(branch) ==
    /\ pc = "evaluate_rpn"
    /\ k <= Len(rpn)
    /\ EvalBranch_in(module, rpn[k]) = branch
    /\ EvaluateLocals(EvalStep(module,
                               [exc |-> "none", msg |-> NoError, stack |-> estack,
                                a |-> a, b |-> b],
                               rpn[k], variables))
    /\ UNCHANGED <<sideVars, expression, entry, runs, variables, tokens, convVars, success, rpn, error, result>>

EvaluateNumber == Evaluate("number")

EvaluateVariable == Evaluate("variable")

EvaluateOperator == Evaluate("operator")

EvaluateUnary == Evaluate("unary")

EvaluateFunction == Evaluate("function")

\* a token that no branch of the loop handles
EvaluateSkip == Evaluate("skip")

\* the check after the loop and the return
EvaluateFinish ==
    /\ pc = "evaluate_rpn"
    /\ k > Len(rpn)
    /\ LET r == EvalFinishOutcome([exc |-> "none", msg |-> NoError, stack |-> estack,
                                   a |-> a, b |-> b])
       IN  /\ exc' = r.exc
           /\ exc_msg' = r.msg
           /\ result' = IF r.exc = "none" THEN r.val ELSE NoResult
    /\ pc' = "done"
    /\ UNCHANGED <<sideVars, expression, entry, runs, variables, tokens, convVars, success, rpn, error, k, estack, a, b>>

\* a further call after an evaluator that removes from the list the tokens
\* it has processed
ReevaluateConsumedList ==
    /\ pc = "done"
    /\ success
    /\ entry = "repeated"
    /\ runs < MaxRuns
    /\ runs' = runs + 1
    /\ variables' \in RebindChoices
    /\ rpn' = SubSeq(rpn, k, Len(rpn))
    /\ k' = 1
    /\ estack' = EvalInit.stack
    /\ a' = EvalInit.a
    /\ b' = EvalInit.b
    /\ exc' = EvalInit.exc
    /\ exc_msg' = EvalInit.msg
    /\ result' = NoResult
    /\ pc' = "evaluate_rpn"
    /\ UNCHANGED <<sideVars, expression, entry, tokens, convVars, success, error>>

\* a further call evaluate_rpn(rpn, variables) on the list that
\* convert_to_rpn returned, with bindings chosen by the caller
Reevaluate ==
    /\ pc = "done"
    /\ success
    /\ entry = "repeated"
    /\ runs < MaxRuns
    /\ runs' = runs + 1
    /\ variables' \in RebindChoices
    /\ k' = 1
    /\ estack' = EvalInit.stack
    /\ a' = EvalInit.a
    /\ b' = EvalInit.b
    /\ exc' = EvalInit.exc
    /\ exc_msg' = EvalInit.msg
    /\ result' = NoResult
    /\ pc' = "evaluate_rpn"
    /\ UNCHANGED <<sideVars, expression, entry, tokens, convVars, success, rpn, error>>

\* lines typed at the prompt of interactive_mode
Lines ==
    {<<"q", "u", "i", "t">>,
     <<"v", "a", "r", "s">>,
     <<"C", "l", "e", "a", "r">>,
     <<>>,
     <<"s", "e", "t", " ", "x", " ", "3">>,
     <<"s", "e", "t", " ", "p", "i", " ", "3">>,
     <<"s", "e", "t", " ", "x", " ", "a", "b", "c">>,
     <<"s", "e", "t", " ", "x">>,
     <<" ", "x", "+", "1">>,
     <<"p", "i">>,
     <<"p", "i", "*", "E">>,
     <<"x", "/", "y">>,
     <<"s", "e", "t", " ", "x", " ", "-", "0", ".", "1">>,
     <<"0", "^", "x">>}

\* the largest number of lines read in one session
MaxCommands == 3

\* one pass through the loop body of interactive_mode up to the continue,
\* the break or the call of convert_to_rpn, by the branch it takes
Command(branch) ==
    /\ entry = "interactive"
    /\ pc = "prompt" \/ pc = "done"
    /\ runs < MaxCommands
    /\ \E line \in Lines :
           LET user_input == strip(line)
           IN  /\ command_branch(user_input) = branch
               /\ expression' = user_input
               /\ variables' = IF branch = "clear" THEN cleared_variables
                               ELSE IF branch = "set" THEN set_variable(user_input, variables)
                               ELSE variables
    /\ runs' = runs + 1
    /\ pc' = IF branch = "quit" THEN "exit"
             ELSE IF branch = "expression" THEN "validate_expression"
             ELSE "prompt"
    /\ IF branch = "expression"
       THEN /\ tokens' = <<>>
            /\ i' = 1
            /\ output' = <<>>
            /\ stack' = <<>>
            /\ expect_unary' = TRUE
            /\ success' = FALSE
            /\ rpn' = <<>>
            /\ error' = NoError
            /\ k' = 1
            /\ estack' = EvalInit.stack
            /\ a' = EvalInit.a
            /\ b' = EvalInit.b
            /\ exc' = EvalInit.exc
            /\ exc_msg' = EvalInit.msg
            /\ result' = NoResult
       ELSE UNCHANGED <<tokens, convVars, success, rpn, error, evalVars>>
    /\ UNCHANGED <<sideVars, entry>>

CommandQuit == Command("quit")

CommandVars == Command("vars")

CommandClear == Command("clear")

CommandSet == Command("set")

CommandEmpty == Command("empty")

CommandExpression == Command("expression")

\* a convert_to_rpn that records the identifiers it has seen in the
\* module-level set FUNCTIONS
OtherConvertRegisters ==
    /\ other.pc = "start"
    /\ LET r == convert_to_rpn_in(module, other.expression)
       IN  /\ other' = [other EXCEPT !.conversion = r,
                                     !.previous = other.conversion,
                                     !.calls = @ + 1,
                                     !.pc = "converted"]
           /\ module' = [module EXCEPT !.FUNCTIONS =
                            @ \cup {r.rpn[n] : n \in {m \in 1..Len(r.rpn) : StrIsAlpha(r.rpn[m])}}]
    /\ UNCHANGED <<prefix, temp_tokens, expression, entry, runs, variables, pc, tokens,
                   convVars, success, rpn, error, evalVars>>

\* the second invocation calls convert_to_rpn(expression)
OtherConvert ==
    /\ other.pc = "start"
    /\ other' = [other EXCEPT !.conversion = convert_to_rpn_in(module, other.expression),
                              !.previous = other.conversion,
                              !.calls = @ + 1,
                              !.pc = "converted"]
    /\ UNCHANGED <<prefix, module, temp_tokens, expression, entry, runs, variables, pc, tokens, convVars,
                   success, rpn, error, evalVars>>

\* the second invocation calls convert_to_rpn on the same string once more
OtherConvertAgain ==
    /\ other.pc = "converted"
    /\ other.calls = 1
    /\ other' = [other EXCEPT !.pc = "start"]
    /\ UNCHANGED <<prefix, module, temp_tokens, expression, entry, runs, variables, pc, tokens, convVars,
                   success, rpn, error, evalVars>>

\* the outcome of a call of evaluate_rpn, its value left unset when it raised
ValueOrNone(r) == [r EXCEPT !.val = IF r.exc = "none" THEN r.val ELSE NoResult]

\* the second invocation calls evaluate_rpn(rpn, variables) on what the
\* second conversion returned
OtherEvaluate ==
    /\ other.pc = "converted"
    /\ other.calls = 2
    /\ other' = [other EXCEPT
                    !.outcome = IF other.conversion.success
                                THEN ValueOrNone(evaluate_rpn_in(module, other.conversion.rpn,
                                                                 other.variables))
                                ELSE @,
                    !.pc = "done"]
    /\ UNCHANGED <<prefix, module, temp_tokens, expression, entry, runs, variables, pc, tokens, convVars,
                   success, rpn, error, evalVars>>

\* the triple that convert_to_rpn returns
ConvertReturn(r) ==
    /\ success' = r.success
    /\ rpn' = r.rpn
    /\ error' = r.error

\* function_main.convert_to_rpn(expression)
FmConvertToRpn ==
    /\ pc = "convert_to_rpn"
    /\ entry = "function_main"
    /\ ConvertReturn(fm_convert_to_rpn(expression))
    /\ pc' = "returned"
    /\ UNCHANGED <<sideVars, expression, entry, runs, variables, tokens, convVars, evalVars>>

\* a direct call tokenize(expression): the two statements before the loop
\* reassign the local name expression
ScanClean ==
    /\ pc = "tokenize_clean"
    /\ entry = "tokenize"
    /\ expression' = ScannedString(expression)
    /\ pc' = "tokenize_loop"
    /\ UNCHANGED <<sideVars, entry, runs, variables, tokens, convVars, success, rpn, error,
                   evalVars>>

\* one iteration of the while loop, by the branch it takes
Scan(branch) ==
    /\ pc = "tokenize_loop"
    /\ entry = "tokenize"
    /\ i <= Len(expression)
    /\ ScanBranch(expression, i) = branch
    /\ IF branch = "raise"
       THEN /\ exc' = "ValueError"
            /\ exc_msg' = MsgFmt("invalid_char", <<expression[i]>>)
            /\ pc' = "returned"
            /\ UNCHANGED <<i, temp_tokens>>
       ELSE /\ i' = ScanNext(expression, i)
            /\ temp_tokens' = ScanAppend(expression, i, temp_tokens)
            /\ UNCHANGED <<pc, exc, exc_msg>>
    /\ UNCHANGED <<prefix, module, other, expression, entry, runs, variables, tokens, output,
                   stack, expect_unary, success, rpn, error, k, estack, a, b, result>>

ScanSpace == Scan("space")

ScanNumber == Scan("number")

ScanAlpha == Scan("alpha")

ScanDoubleOperator == Scan("operator2")

ScanOperator == Scan("operator")

ScanRaise == Scan("raise")

\* the value of i when "for i in range(count)" is left by a return at the
\* first index in stops or, with none, by the end of the range (i counts
\* from 1 here; an empty range leaves i as it was)
ForIndex(before, count, stops) ==
    IF count <= 0 THEN before
    ELSE IF stops # {} THEN CHOOSE n \in stops : \A m \in stops : n <= m
    ELSE count

\* the check for two numbers in a row and the return of tokenize; success
\* tells a token list from None.  The for loop of the check rebinds i
ScanFinish ==
    /\ pc = "tokenize_loop"
    /\ entry = "tokenize"
    /\ i > Len(expression)
    /\ LET pairs == {n \in 1..(Len(temp_tokens) - 1) :
                         temp_tokens[n][1] = "number" /\ temp_tokens[n + 1][1] = "number"}
       IN  /\ IF pairs # {}
              THEN success' = FALSE /\ tokens' = <<>>
              ELSE /\ success' = TRUE
                   /\ tokens' = [n \in 1..Len(temp_tokens) |-> temp_tokens[n][2]]
           /\ i' = ForIndex(i, Len(temp_tokens) - 1, pairs)
    /\ pc' = "returned"
    /\ UNCHANGED <<sideVars, expression, entry, runs, variables, output, stack, expect_unary,
                   rpn, error, evalVars>>

\* polskakurvA.infix_to_prefix(expression)
PolskaInfixToPrefix ==
    /\ pc = "infix_to_prefix"
    /\ entry = "polskakurvA"
    /\ LET r == polska_infix_to_prefix(expression)
       IN  prefix' = [exc |-> r.exc, val |-> r.val, returned |-> TRUE]
    /\ pc' = "returned"
    /\ UNCHANGED <<module, temp_tokens, other, expression, entry, runs, variables, tokens, convVars, success,
                   rpn, error, evalVars>>

\* Plotter.infix_to_prefix(expression)
PlotterInfixToPrefix ==
    /\ pc = "infix_to_prefix"
    /\ entry = "plotter"
    /\ LET r == plotter_infix_to_prefix(expression)
       IN  prefix' = [exc |-> r.exc, val |-> r.val, returned |-> TRUE]
    /\ pc' = "returned"
    /\ UNCHANGED <<module, temp_tokens, other, expression, entry, runs, variables, tokens, convVars, success,
                   rpn, error, evalVars>>

Next ==
    \/ ValidateExpression
    \/ Tokenize
    \/ ValidateTokens
    \/ ConvertOperand
    \/ ConvertFunction
    \/ ConvertOpen
    \/ ConvertClose
    \/ ConvertUnary
    \/ ConvertBinary
    \/ ConvertSkip
    \/ ConvertFinish
    \/ AssignRandom
    \/ EvaluateNumber
    \/ EvaluateVariable
    \/ EvaluateOperator
    \/ EvaluateUnary
    \/ EvaluateFunction
    \/ EvaluateSkip
    \/ EvaluateFinish
    \/ Reevaluate
    \/ PolskaInfixToPrefix
    \/ PlotterInfixToPrefix
    \/ CommandQuit
    \/ CommandVars
    \/ CommandClear
    \/ CommandSet
    \/ CommandEmpty
    \/ CommandExpression
    \/ OtherConvert
    \/ OtherConvertAgain
    \/ OtherEvaluate
    \/ FmConvertToRpn
    \/ ScanClean
    \/ ScanSpace
    \/ ScanNumber
    \/ ScanAlpha
    \/ ScanDoubleOperator
    \/ ScanOperator
    \/ ScanRaise
    \/ ScanFinish

(***************************************************************************)
(* Inputs.                                                                 *)
(***************************************************************************)
\* "-3+5"
ExMinus3Plus5 == <<"-", "3", "+", "5">>

\* "3*-2"
Ex3TimesMinus2 == <<"3", "*", "-", "2">>

\* "-(2+3)"
ExMinusParen == <<"-", "(", "2", "+", "3", ")">>

\* "2+3*4"
Ex2Plus3Times4 == <<"2", "+", "3", "*", "4">>

\* "2^3^2"
ExPowerChain == <<"2", "^", "3", "^", "2">>

\* "10-3-2"
ExMinusChain == <<"1", "0", "-", "3", "-", "2">>

\* "(1+2"
ExUnclosed == <<"(", "1", "+", "2">>

\* "1++2"
ExPlusPlus == <<"1", "+", "+", "2">>

\* "*5"
ExStarFive == <<"*", "5">>

\* "()"
ExEmptyParens == <<"(", ")">>

\* "sin 3"
ExSinSpace == <<"s", "i", "n", " ", "3">>

\* "5/0"
ExDivZero == <<"5", "/", "0">>

\* "5%0"
ExModZero == <<"5", "%", "0">>

\* "5//0"
ExFloorDivZero == <<"5", "/", "/", "0">>

\* "5%z"
ExModComplexZero == <<"5", "%", "z">>

\* "2ln(1)"
ExOperandFunction == <<"2", "l", "n", "(", "1", ")">>

\* "1+-"
ExEndsWithSign == <<"1", "+", "-">>

\* "2*-3"
Ex2TimesMinus3 == <<"2", "*", "-", "3">>

\* "2*/3"
ExTwoBinary == <<"2", "*", "/", "3">>

\* "floor(sqrt(4))"
ExFloorSqrt == <<"f", "l", "o", "o", "r", "(", "s", "q", "r", "t", "(", "4", ")", ")">>

\* "*1x"
ExStarOperands == <<"*", "1", "x">>

\* "1 + 2 # sum"
ExCommented == <<"1", " ", "+", " ", "2", " ", "#", " ", "s", "u", "m">>

\* "1" line feed "+" carriage return "2": whitespace other than the space
ExLineBreak == <<"1", "\n", "+", "\r", "2">>

\* "é+1": a letter outside [a-zA-Z]
ExAccent == <<"é", "+", "1">>

\* "2²": a digit outside [0-9]
ExSuperscript == <<"2", "²">>

\* "sqrt(-sqrt(16))": the root of -(4+0j)
ExSqrtMinusSqrt ==
    <<"s", "q", "r", "t", "(", "-", "s", "q", "r", "t", "(", "1", "6", ")", ")">>

Catalogue ==
    {ExMinus3Plus5,
     Ex3TimesMinus2,
     ExMinusParen,
     Ex2Plus3Times4,
     ExPowerChain,
     ExMinusChain,
     ExUnclosed,
     ExPlusPlus,
     ExStarFive,
     ExEmptyParens,
     ExSinSpace,
     ExDivZero,
     ExModZero,
     ExFloorDivZero,
     ExModComplexZero,
     ExXPlus1,
     ExOperandFunction,
     ExEndsWithSign,
     Ex2TimesMinus3,
     ExTwoBinary,
     ExFloorSqrt,
     ExStarOperands,
     ExCommented,
     ExLineBreak,
     ExAccent,
     ExSuperscript,
     ExSqrtMinusSqrt}

\* all strings over the alphabet A of length at most n
StringsUpTo(A, n) == UNION {[1..m -> A] : m \in 0..n}

(* Grammar inputs: every string of at most MaxLen characters over an       *)
(* alphabet with a digit, the letters of the function name ln, two         *)
(* operators, the parentheses and the space.                               *)
MaxLen == 5

GrammarAlphabet == {"1", "l", "n", "+", "*", "(", ")", " "}

GrammarExpressions == StringsUpTo(GrammarAlphabet, MaxLen) \cup Catalogue

InitGrammar == InitWith(GrammarExpressions, {SampleBindings})

SpecGrammar == InitGrammar /\ [][Next]_vars

(* Binary inputs: chains of at most MaxOperands operands 1, 2, 3, ...      *)
(* joined by any of the eight binary operators, with at most one           *)
(* parenthesised group of consecutive operands.                            *)
MaxOperands == 4

BinaryOperators == DOMAIN OPERATORS

DigitChars == <<"1", "2", "3", "4", "5", "6", "7", "8", "9">>

RECURSIVE Chain(_, _, _, _)
Chain(ops, p, lo, hi) ==
    LET piece == (IF p = lo THEN <<"(">> ELSE <<>>) \o <<DigitChars[p]>>
                 \o (IF p = hi THEN <<")">> ELSE <<>>)
    IN  IF p = Len(ops) + 1 THEN piece
        ELSE piece \o ops[p] \o Chain(ops, p + 1, lo, hi)

Groups(n) == {<<0, 0>>} \cup {g \in (1..n) \X (1..n) : g[1] < g[2]}

BinaryExpressions ==
    UNION { {Chain(ops, 1, g[1], g[2]) : g \in Groups(Len(ops) + 1)} :
            ops \in UNION {[1..m -> BinaryOperators] : m \in 0..(MaxOperands - 1)} }

InitBinary == InitWith(BinaryExpressions \cup Catalogue, {SampleBindings})

SpecBinary == InitBinary /\ [][Next]_vars

(* Inputs of the prefix converters: chains of up to MaxPrefixOperands      *)
(* distinct one-letter operands joined by + - * / % ^, with at most one    *)
(* parenthesised group of consecutive operands.                            *)
MaxPrefixOperands == 3

PrefixOperators == {<<"+">>, <<"-">>, <<"*">>, <<"/">>, <<"%">>, <<"^">>}

OperandChars == <<"a", "b", "c", "d", "g", "h">>

RECURSIVE LetterChain(_, _, _, _)
LetterChain(ops, p, lo, hi) ==
    LET piece == (IF p = lo THEN <<"(">> ELSE <<>>) \o <<OperandChars[p]>>
                 \o (IF p = hi THEN <<")">> ELSE <<>>)
    IN  IF p = Len(ops) + 1 THEN piece
        ELSE piece \o ops[p] \o LetterChain(ops, p + 1, lo, hi)

PrefixExpressions ==
    UNION { {LetterChain(ops, 1, g[1], g[2]) : g \in Groups(Len(ops) + 1)} :
            ops \in UNION {[1..m -> PrefixOperators] : m \in 0..(MaxPrefixOperands - 1)} }

InitPrefix ==
    \/ InitWith(Catalogue, {SampleBindings})
    \/ InitAt(PrefixExpressions, {EmptyBindings}, {"polskakurvA", "plotter"}, "infix_to_prefix")

SpecPrefix == InitPrefix /\ [][Next]_vars

(* Sessions of interactive_mode, and main with an expression argument.     *)
\* "pi/x"
ExPiOverX == <<"p", "i", "/", "x">>

\* "E+e"
ExEPlusE == <<"E", "+", "e">>

InitSessions ==
    \/ InitWith(Catalogue, {SampleBindings})
    \/ InitAt({ExXPlus1, ExXOverY, ExPiOverX, ExEPlusE, ExDivZero, ExUnclosed},
              {Constants}, {"main"}, "validate_expression")

SpecSessions == InitSessions /\ [][Next]_vars

(* Two invocations of the engine at once, each on its own arguments.       *)
ConcurrentExpressions ==
    {ExXPlus1, ExXOverY, ExMinus3Plus5, ExPowerChain, ExUnclosed, ExDivZero, ExFloorSqrt,
     ExSinSpace}

ConcurrentBindings == {EmptyBindings, XOverFour, XOverZero}

InitConcurrent ==
    \/ InitWith(Catalogue, {SampleBindings})
    \/ InitState(ConcurrentExpressions, ConcurrentBindings, {"concurrent"},
                 "validate_expression",
                 {Invocation(e, vs) : e \in ConcurrentExpressions, vs \in ConcurrentBindings})

SpecConcurrent == InitConcurrent /\ [][Next]_vars

(* Direct calls of infix_to_rpn and of evaluate_rpn: every list of at most *)
(* MaxTokens tokens.                                                       *)
MaxTokens == 4

InfixTokens ==
    {<<"1">>, <<"x">>, <<"s", "i", "n">>, <<"+">>, <<"*">>, <<"^">>, <<"(">>, <<")">>, <<"$">>}

PostfixTokens ==
    {<<"2">>, <<"x">>, <<"+">>, <<"u", "-">>, <<"s", "q", "r", "t">>, <<"(">>, <<"$">>}

InitDirect ==
    \/ InitWith(Catalogue, {SampleBindings})
    \/ InitTokens(StringsUpTo(InfixTokens, MaxTokens))
    \/ InitPostfix(StringsUpTo(PostfixTokens, MaxTokens), {XIsTwo})

SpecDirect == InitDirect /\ [][Next]_vars

(* Inputs of both converters: every string of at most MaxCommonLen         *)
(* characters over a digit, a letter, two operators, the parentheses and   *)
(* the space.                                                              *)
MaxCommonLen == 4

CommonAlphabet == {"3", "x", "+", "*", "(", ")", " "}

\* "3 3"
Ex3Space3 == <<"3", " ", "3">>

\* "8/4-2"
ExDivMinus == <<"8", "/", "4", "-", "2">>

InitCommon ==
    \/ InitWith(Catalogue, {SampleBindings})
    \/ InitAt(StringsUpTo(CommonAlphabet, MaxCommonLen) \cup {ExDivMinus, ExMinusChain},
              {EmptyBindings}, {"function_main"}, "convert_to_rpn")

SpecCommon == InitCommon /\ [][Next]_vars

(* Runs of the loops: direct calls of tokenize on every string of at most  *)
(* MaxScanLen characters and of infix_to_rpn on every list of at most      *)
(* MaxStackTokens tokens, every step taken as long as one is possible.     *)
MaxScanLen == 4

MaxStackTokens == 3

ScanAlphabet == {"1", ".", "x", "*", "/", "(", " ", "$"}

InitLoops ==
    \/ InitWith(Catalogue, {SampleBindings})
    \/ InitAt(StringsUpTo(ScanAlphabet, MaxScanLen), {EmptyBindings}, {"tokenize"},
              "tokenize_clean")
    \/ InitTokens(StringsUpTo(InfixTokens, MaxStackTokens))

\* the statements of the two calls run one after another, so an iteration
\* of either loop that can be taken is taken
LoopStep ==
    \/ ScanSpace
    \/ ScanNumber
    \/ ScanAlpha
    \/ ScanDoubleOperator
    \/ ScanOperator
    \/ ScanRaise
    \/ ScanFinish
    \/ ConvertOperand
    \/ ConvertFunction
    \/ ConvertOpen
    \/ ConvertClose
    \/ ConvertUnary
    \/ ConvertBinary
    \/ ConvertSkip
    \/ ConvertFinish

SpecLoops == InitLoops /\ [][Next]_vars /\ WF_vars(LoopStep)

(* Signed inputs: one sign and two operands around each binary operator.   *)
SignedOperands == {<<"3">>, <<"5">>, <<"x">>}

SignedExpressions ==
    UNION { { sg \o x \o op \o y,
              x \o op \o sg \o y,
              sg \o <<"(">> \o x \o op \o y \o <<")">> } :
            sg \in PlusMinus, x \in SignedOperands, op \in BinaryOperators,
            y \in SignedOperands }

InitSigned == InitWith(SignedExpressions \cup Catalogue, {SampleBindings})

SpecSigned == InitSigned /\ [][Next]_vars

(* Arithmetic inputs: l op r, l op -r and l op (m - r) over operands of    *)
(* every type (float literals, float / int / complex variables, zero and   *)
(* non-zero).                                                              *)
ArithOperands ==
    {<<"0">>, <<"1">>, <<"5">>, <<"x">>, <<"z">>, <<"w">>, <<"c">>, <<"n">>, <<"m">>}

ArithExpressions ==
    UNION { { l \o op \o r,
              l \o op \o <<"-">> \o r } \cup
            { l \o op \o <<"(">> \o q \o <<"-">> \o r \o <<")">> : q \in ArithOperands } :
            l \in ArithOperands, op \in BinaryOperators, r \in ArithOperands }

InitArith == InitWith(ArithExpressions \cup Catalogue, {SampleBindings})

SpecArith == InitArith /\ [][Next]_vars

(* Binding inputs: one, two or three operands among a literal, a zero, the *)
(* identifiers x and y, joined by + and /, evaluated under no bindings,    *)
(* under {x: 2} and under the sample bindings.                             *)
BindingOperands == {<<"1">>, <<"0">>, <<"x">>, <<"y">>}

BindingOperators == {<<"+">>, <<"/">>}

BindingExpressions ==
    BindingOperands \cup
    UNION { {l \o op \o r} \cup {l \o op \o r \o oq \o q : oq \in BindingOperators,
                                                          q \in BindingOperands} :
            l \in BindingOperands, op \in BindingOperators, r \in BindingOperands }

InitBindings ==
    InitWith(BindingExpressions \cup Catalogue, {EmptyBindings, XIsTwo, SampleBindings})

SpecBindings == InitBindings /\ [][Next]_vars

(* Function inputs: f(a), f(-a), f(g(a)), g(a) % 3 and g(a) // 3 for the   *)
(* real-only functions f, complex-aware functions g and operands a of      *)
(* every type.                                                             *)
RealOnlyFunctions ==
    {<<"f","l","o","o","r">>, <<"c","e","i","l">>, <<"r","o","u","n","d">>,
     <<"f","a","c","t">>, <<"r","a","d">>, <<"d","e","g">>}

ComplexAwareFunctions ==
    {<<"s","q","r","t">>, <<"e","x","p">>, <<"l","n">>, <<"l","o","g">>,
     <<"s","i","n">>, <<"c","o","s">>}

FunctionOperands ==
    {<<"0">>, <<"1">>, <<"4">>, <<"5">>, <<"2", ".", "5">>,
     <<"x">>, <<"z">>, <<"w">>, <<"c">>, <<"n">>, <<"m">>}

Call(f, arg) == f \o <<"(">> \o arg \o <<")">>

FunctionExpressions ==
    UNION { {Call(f, x), Call(f, <<"-">> \o x)} :
            f \in RealOnlyFunctions \cup ComplexAwareFunctions \cup {<<"a","b","s">>},
            x \in FunctionOperands } \cup
    UNION { {Call(f, Call(g, x)) : f \in RealOnlyFunctions} \cup
            {Call(g, x) \o op \o <<"3">> : op \in {<<"%">>, <<"/", "/">>}} :
            g \in ComplexAwareFunctions \cup {<<"a","b","s">>}, x \in FunctionOperands }

\* f(1) for every name f of the function table
TableCalls == {Call(f, <<"1">>) : f \in FUNCTIONS}

InitFunctions ==
    InitWith(FunctionExpressions \cup TableCalls \cup Catalogue, {SampleBindings})

SpecFunctions == InitFunctions /\ [][Next]_vars

(* Lexical inputs: every string of at most MaxLexLen characters over a     *)
(* digit, the dot, the comma, an operator, the space and a character that  *)
(* no token contains.                                                      *)
MaxLexLen == 5

LexicalAlphabet == {"1", ".", ",", "+", " ", "$"}

\* "3,5+1" and "3.5+1"
Ex3Comma5Plus1 == <<"3", ",", "5", "+", "1">>

Ex3Dot5Plus1 == <<"3", ".", "5", "+", "1">>

\* "1.2.3"
ExTwoDots == <<"1", ".", "2", ".", "3">>

LexicalExpressions ==
    StringsUpTo(LexicalAlphabet, MaxLexLen) \cup {Ex3Comma5Plus1, Ex3Dot5Plus1, ExTwoDots}

InitLexical == InitWith(LexicalExpressions \cup Catalogue, {SampleBindings})

SpecLexical == InitLexical /\ [][Next]_vars

(* Caller inputs: the binding inputs and the catalogue under each caller,  *)
(* first with no bindings or with {x: 2}.                                  *)
InitCallers ==
    \/ InitCall(BindingExpressions \cup Catalogue, {EmptyBindings, XIsTwo},
                {"random", "repeated"})
    \/ InitWith(BindingExpressions \cup Catalogue, {EmptyBindings, XIsTwo})

SpecCallers == InitCallers /\ [][Next]_vars

(***************************************************************************)
(* Vocabulary of the grammar properties                                    *)
(***************************************************************************)
Cleaned == clean_expression(expression)

\* the characters are all allowed and the scan raises nothing
Scannable ==
    /\ Cleaned # <<>>
    /\ \A n \in 1..Len(Cleaned) : Cleaned[n] \in AllowedChars
    /\ ~ScanLoop(Replace(Cleaned, ",", <<".">>), 1, <<>>).raised

\* the tokens of the input, also when tokenize returns None
RawTokens ==
    LET tt == ScanLoop(Replace(Cleaned, ",", <<".">>), 1, <<>>).temp_tokens
    IN  [n \in 1..Len(tt) |-> tt[n][2]]

\* number of '(' minus number of ')' among the first n characters
Depth(s, n) ==
    Cardinality({m \in 1..n : s[m] = "("}) - Cardinality({m \in 1..n : s[m] = ")"})

GoesNegative(s) == \E n \in 1..Len(s) : Depth(s, n) < 0

EndsPositive(s) == Depth(s, Len(s)) > 0

TypeAt(toks, n) == IF n < 1 \/ n > Len(toks) THEN "none" ELSE get_token_type(toks[n])

\* a sign at the start, after '(' or after an operator
UnaryPosition(toks, n) ==
    toks[n] \in PlusMinus /\ (n = 1 \/ TypeAt(toks, n - 1) \in {"open", "operator"})

\* the grammar rules that the token at position n breaks
ViolationsAt(toks, n) ==
    LET ty == TypeAt(toks, n)
        prev == TypeAt(toks, n - 1)
        binary == ty = "operator" /\ ~UnaryPosition(toks, n)
    IN  {key \in ERROR_MESSAGES :
           \/ key = "function_without_paren" /\ ty = "function"
                 /\ (n = Len(toks) \/ toks[n + 1] # <<"(">>)
           \/ key = "two_operands" /\ ty = "operand" /\ prev = "operand"
           \/ key = "operand_after_close" /\ ty = "operand" /\ prev = "close"
           \/ key = "starts_with_op" /\ binary /\ n = 1
           \/ key = "two_operators" /\ binary /\ prev = "operator"
           \/ key = "op_after_open" /\ binary /\ prev = "open"
           \/ key = "ends_with_op" /\ binary /\ n = Len(toks)
           \/ key = "open_after_operand" /\ ty = "open" /\ prev \in {"operand", "close"}
           \/ key = "starts_with_close" /\ ty = "close" /\ n = 1
           \/ key = "close_after_op" /\ ty = "close" /\ prev = "operator"
           \/ key = "close_after_open" /\ ty = "close" /\ prev = "open"}

Offending(toks) == {n \in 1..Len(toks) : ViolationsAt(toks, n) # {}}

Leftmost(S) == CHOOSE n \in S : \A m \in S : n <= m

AdjacentNumbers(toks) ==
    \E n \in 1..(Len(toks) - 1) :
        StrIsDigit(Replace(toks[n], ".", <<>>)) /\ StrIsDigit(Replace(toks[n + 1], ".", <<>>))

\* convert_to_rpn has returned
Converted == pc \in {"evaluate_rpn", "done"} /\ entry # "evaluate_rpn"

(***************************************************************************)
(* C3                                                                      *)
(***************************************************************************)
StackFailures ==
    {"not_enough_values_operation", "not_enough_values_unary",
     "not_enough_values_function", "invalid_expression"}

\* C3: for every expression that convert_to_rpn accepts, evaluate_rpn never
\* fails with 'Not enough values ...' or 'Invalid expression'.
C3_AcceptedEvaluatesCleanly ==
    (pc = "done" /\ success) => ~(exc = "ValueError" /\ exc_msg.key \in StackFailures)

(***************************************************************************)
(* C4                                                                      *)
(***************************************************************************)
\* the reasons of each of the eight checks, in the order of the claim
CheckKinds(c) ==
    CASE c = 1 -> {"unmatched_close", "unmatched_open"}
      [] c = 2 -> {"empty_brackets"}
      [] c = 3 -> {"two_operands", "operand_after_close"}
      [] c = 4 -> {"two_operators"}
      [] c = 5 -> {"starts_with_op", "ends_with_op"}
      [] c = 6 -> {"function_without_paren", "invalid_function"}
      [] c = 7 -> {"op_after_open"}
      [] c = 8 -> {"starts_with_close", "close_after_op", "close_after_open"}

\* the checks that the input fails
FailedChecks ==
    {c \in 1..8 :
        \/ c = 1 /\ (GoesNegative(Cleaned) \/ EndsPositive(Cleaned))
        \/ c = 2 /\ HasEmptyBrackets(RawTokens)
        \/ c > 2 /\ \E n \in 1..Len(RawTokens) : ViolationsAt(RawTokens, n) \cap CheckKinds(c) # {}}

\* C4 (as claimed): the reported reason is that of the first failing check
\* in the order (1)..(8), whatever the position of the offending token.
C4_CheckOrderDecides ==
    (pc = "done" /\ Scannable /\ FailedChecks # {})
        => (~success /\ error.key \in CheckKinds(Leftmost(FailedChecks)))

\* C4 (amended): parenthesis balance comes first, then two adjacent number
\* tokens, then an empty pair of brackets anywhere; after that the tokens are
\* scanned once from left to right and the leftmost offending token decides
\* the reason, whatever the order of the checks.
C4_LeftmostTokenDecides ==
    (pc = "done" /\ Scannable) =>
        IF GoesNegative(Cleaned) THEN ~success /\ error = Msg("unmatched_close")
        ELSE IF EndsPositive(Cleaned) THEN ~success /\ error = Msg("unmatched_open")
        ELSE IF AdjacentNumbers(RawTokens) THEN ~success /\ error = Msg("two_operands")
        ELSE IF HasEmptyBrackets(RawTokens) THEN ~success /\ error = Msg("empty_brackets")
        ELSE IF Offending(RawTokens) # {}
             THEN ~success /\ error.key \in ViolationsAt(RawTokens, Leftmost(Offending(RawTokens)))
        ELSE success

\* "*1x" breaks check 3 at its last token and check 5 at its first one: the
\* first token decides
C4_Witness ==
    pc = "done" /\ Cleaned = ExStarOperands /\ error = Msg("starts_with_op")
        /\ 3 \in FailedChecks

(***************************************************************************)
(* C5                                                                      *)
(***************************************************************************)
\* C5: no accepted expression ends with an operator (a sign in unary
\* position included).
C5_NoAcceptedEndsWithOperator ==
    (Converted /\ success) => TypeAt(tokens, Len(tokens)) # "operator"

(***************************************************************************)
(* C6                                                                      *)
(***************************************************************************)
\* C6: "1++2" is rejected with an error; convert_to_rpn("1++2") does not succeed.
C6_PlusPlusRejected ==
    (Converted /\ Cleaned = ExPlusPlus) => (~success /\ error # NoError)

(***************************************************************************)
(* C7                                                                      *)
(***************************************************************************)
\* C7: validate_tokens permits a '+' or '-' right after any binary operator,
\* after '(' or at the start: such a sign is never the token it rejects;
\* any other binary operator right after an operator is rejected with
\* 'two_operators' (when no earlier token is rejected).
C7_UnarySignPermitted ==
    (Converted /\ tokens # <<>>) =>
        \A n \in 1..Len(tokens) :
            /\ UnaryPosition(tokens, n) => SequenceLoop(tokens, 1, <<>>, "none").at # n
            /\ (/\ TypeAt(tokens, n) = "operator"
                /\ tokens[n] \notin PlusMinus
                /\ TypeAt(tokens, n - 1) = "operator"
                /\ ~HasEmptyBrackets(tokens)
                /\ \A m \in 1..(n - 1) : ViolationsAt(tokens, m) = {})
               => (~success /\ error = Msg("two_operators"))

\* an accepted expression with a sign right after '*'
C7_Witness ==
    /\ pc = "done"
    /\ success
    /\ \E n \in 2..Len(tokens) : tokens[n] \in PlusMinus /\ tokens[n - 1] = <<"*">>

(***************************************************************************)
(* C8                                                                      *)
(***************************************************************************)
\* C8: the reason of each catalogue shape, when no check that runs before it
\* fails: a parenthesis count that goes negative gives 'unmatched_close', one
\* that ends positive 'unmatched_open' ("(1+2"); an adjacent '(' ')' pair
\* gives 'empty_brackets' ("()"); a first token that is a binary operator
\* other than '+'/'-' gives 'starts_with_op' ("*5"); a function name not
\* followed by '(' gives 'function_without_paren' with that name ("sin 3").
C8_CatalogueReasons ==
    (pc = "done" /\ Scannable) =>
        /\ GoesNegative(Cleaned) => (~success /\ error = Msg("unmatched_close"))
        /\ (~GoesNegative(Cleaned) /\ EndsPositive(Cleaned))
              => (~success /\ error = Msg("unmatched_open"))
        /\ (Depth(Cleaned, Len(Cleaned)) = 0 /\ ~GoesNegative(Cleaned)
                /\ ~AdjacentNumbers(RawTokens)) =>
              /\ HasEmptyBrackets(RawTokens) => (~success /\ error = Msg("empty_brackets"))
              /\ (~HasEmptyBrackets(RawTokens) /\ TypeAt(RawTokens, 1) = "operator"
                      /\ RawTokens[1] \notin PlusMinus)
                    => (~success /\ error = Msg("starts_with_op"))
              /\ \A n \in 1..Len(RawTokens) :
                    (/\ ~HasEmptyBrackets(RawTokens)
                     /\ RawTokens[n] \in FUNCTIONS
                     /\ (n = Len(RawTokens) \/ RawTokens[n + 1] # <<"(">>)
                     /\ \A m \in 1..(n - 1) : ViolationsAt(RawTokens, m) = {})
                    => (~success /\ error = MsgFmt("function_without_paren", RawTokens[n]))
        /\ Cleaned = ExUnclosed => error = Msg("unmatched_open")
        /\ Cleaned = ExStarFive => error = Msg("starts_with_op")
        /\ Cleaned = ExEmptyParens => error = Msg("empty_brackets")
        /\ Cleaned = ExSinSpace => error = MsgFmt("function_without_paren", <<"s", "i", "n">>)

\* "sin 3" was rejected because sin is not followed by '('
C8_Witness ==
    /\ pc = "done"
    /\ Cleaned = ExSinSpace
    /\ ~success
    /\ error = MsgFmt("function_without_paren", <<"s", "i", "n">>)

(***************************************************************************)
(* C1                                                                      *)
(***************************************************************************)
\* C1: a sign in unary position applies only to the operand that follows it:
\* "-3+5" gives 2, "3*-2" gives -6, "-(2+3)" gives -5, and the postfix of
\* "-x op y" has the unary marker directly after x and before y.
C1_UnaryBindsTighter ==
    /\ (pc = "done" /\ Cleaned = ExMinus3Plus5) => result = PyFloat(<<2, 1>>)
    /\ (pc = "done" /\ Cleaned = Ex3TimesMinus2) => result = PyFloat(<<-6, 1>>)
    /\ (pc = "done" /\ Cleaned = ExMinusParen) => result = PyFloat(<<-5, 1>>)
    /\ (/\ Converted /\ success
        /\ Len(tokens) = 4
        /\ tokens[1] \in PlusMinus
        /\ TypeAt(tokens, 2) = "operand"
        /\ tokens[3] \in DOMAIN OPERATORS
        /\ TypeAt(tokens, 4) = "operand")
       => rpn = <<tokens[2], UnaryMarker(tokens[1]), tokens[4], tokens[3]>>

(***************************************************************************)
(* C2                                                                      *)
(***************************************************************************)
\* The operator table of the claim
RefPrecedence(op) ==
    IF op \in {<<"+">>, <<"-">>} THEN 1
    ELSE IF op \in {<<"*">>, <<"/">>, <<"%">>, <<"/", "/">>} THEN 2
    ELSE 3

RefRightAssociative(op) == op \in {<<"^">>, <<"*", "*">>}

\* Postfix of the expression tree, by recursive descent (precedence climbing):
\*   expr(min) ::= primary { op expr(min') }   for operators of precedence >= min
\*   primary   ::= operand | '(' expr(1) ')'
\* Each operator returns [out, pos]: the postfix of what it read and the
\* position after it.
RECURSIVE RefExpr(_, _, _)
RECURSIVE RefTail(_, _, _, _)
RECURSIVE RefPrimary(_, _)
RefExpr(toks, pos, min) ==
    LET p == RefPrimary(toks, pos) IN RefTail(toks, p.out, p.pos, min)

RefTail(toks, lhs, pos, min) ==
    IF pos <= Len(toks) /\ toks[pos] \in BinaryOperators /\ RefPrecedence(toks[pos]) >= min
    THEN LET op == toks[pos]
             rhs == RefExpr(toks, pos + 1,
                            IF RefRightAssociative(op) THEN RefPrecedence(op)
                            ELSE RefPrecedence(op) + 1)
         IN  RefTail(toks, lhs \o rhs.out \o <<op>>, rhs.pos, min)
    ELSE [out |-> lhs, pos |-> pos]

RefPrimary(toks, pos) ==
    IF pos > Len(toks) THEN [out |-> <<>>, pos |-> pos]
    ELSE IF toks[pos] = <<"(">>
    THEN LET e == RefExpr(toks, pos + 1, 1) IN [out |-> e.out, pos |-> e.pos + 1]
    ELSE [out |-> <<toks[pos]>>, pos |-> pos + 1]

RefPostfix(toks) == RefExpr(toks, 1, 1).out

\* only operands, binary operators and parentheses; no sign in unary position
PureBinary(toks) ==
    \A n \in 1..Len(toks) :
        /\ TypeAt(toks, n) \in {"operand", "operator", "open", "close"}
        /\ ~UnaryPosition(toks, n)

\* C2: for an expression of operands, binary operators and parentheses,
\* infix_to_rpn returns the postfix of the expression tree of the operator
\* table (1 for + -, 2 for * / % //, 3 for ^ **, the latter grouping to the
\* right); "2+3*4" gives 2 3 4 * + = 14, "2^3^2" gives 2 3 2 ^ ^ = 512 and
\* "10-3-2" gives 10 3 - 2 - = 5.
C2_PostfixOfExpressionTree ==
    /\ (Converted /\ success /\ PureBinary(tokens)) => rpn = RefPostfix(tokens)
    /\ (Converted /\ Cleaned = Ex2Plus3Times4)
          => rpn = <<<<"2">>, <<"3">>, <<"4">>, <<"*">>, <<"+">>>>
    /\ (Converted /\ Cleaned = ExPowerChain)
          => rpn = <<<<"2">>, <<"3">>, <<"2">>, <<"^">>, <<"^">>>>
    /\ (Converted /\ Cleaned = ExMinusChain)
          => rpn = <<<<"1", "0">>, <<"3">>, <<"-">>, <<"2">>, <<"-">>>>
    /\ (pc = "done" /\ Cleaned = Ex2Plus3Times4) => result = PyFloat(<<14, 1>>)
    /\ (pc = "done" /\ Cleaned = ExPowerChain) => result = PyFloat(<<512, 1>>)
    /\ (pc = "done" /\ Cleaned = ExMinusChain) => result = PyFloat(<<5, 1>>)

\* "2^3^2" was converted to 2 3 2 ^ ^ and evaluated to 512
C2_Witness ==
    /\ pc = "done"
    /\ Cleaned = ExPowerChain
    /\ rpn = <<<<"2">>, <<"3">>, <<"2">>, <<"^">>, <<"^">>>>
    /\ result = PyFloat(<<512, 1>>)

(***************************************************************************)
(* C9, C10                                                                 *)
(***************************************************************************)
\* both parts of the value are zero
ExactlyZero(v) == v.re = <<0, 1>> /\ v.im = <<0, 1>>

\* evaluate_rpn is about to apply the binary operator op to two values
AboutToApply(ops) ==
    /\ pc = "evaluate_rpn"
    /\ k <= Len(rpn)
    /\ rpn[k] \in ops
    /\ Len(estack) >= 2

RightOperand == estack[Len(estack)]

LeftOperand == estack[Len(estack) - 1]

\* C9: each of /, // and % fails with 'Division by zero' whenever its right
\* operand is zero, for every left operand; nothing is pushed and nothing is
\* returned.
C9_DivisionByZero ==
    [][ (AboutToApply({<<"/">>, <<"/", "/">>, <<"%">>}) /\ ExactlyZero(RightOperand))
          => /\ pc' = "done"
             /\ exc' = "ValueError"
             /\ exc_msg' = Msg("division_by_zero")
             /\ estack' = SubSeq(estack, 1, Len(estack) - 2)
             /\ result' = NoResult ]_vars

\* "w//z": a complex left operand floor-divided by the complex zero
C9_Witness ==
    /\ pc = "done"
    /\ exc = "ValueError"
    /\ exc_msg = Msg("division_by_zero")
    /\ rpn[k] = <<"/", "/">>
    /\ a.t = "complex"
    /\ b.t = "complex"
    /\ result = NoResult

\* C10 (as claimed): '%' and '//' fail with the complex-not-supported error
\* whenever either operand is complex, also when the right operand is 0j.
C10_ComplexNotSupported ==
    (/\ pc = "done" /\ success /\ exc # "none"
     /\ k <= Len(rpn)
     /\ rpn[k] \in {<<"%">>, <<"/", "/">>}
     /\ exc_msg.key # "not_enough_values_operation"
     /\ (a.t = "complex" \/ b.t = "complex"))
    => exc_msg.key \in {"modulo_complex", "floor_division_complex"}

\* C10 (amended): '%' and '//' fail with the complex-not-supported error
\* whenever either operand is complex and the right operand is not zero;
\* when the right operand is zero (0j included) the zero check comes first
\* and the error is 'Division by zero'.
C10_ComplexNotSupportedUnlessZero ==
    [][ (/\ AboutToApply({<<"%">>, <<"/", "/">>})
         /\ (LeftOperand.t = "complex" \/ RightOperand.t = "complex"))
          => /\ pc' = "done"
             /\ exc' = "ValueError"
             /\ result' = NoResult
             /\ exc_msg' = IF ExactlyZero(RightOperand) THEN Msg("division_by_zero")
                           ELSE IF rpn[k] = <<"%">> THEN Msg("modulo_complex")
                           ELSE Msg("floor_division_complex") ]_vars

\* "5%w": a float modulo a non-zero complex
C10_Witness ==
    /\ pc = "done"
    /\ exc = "ValueError"
    /\ exc_msg = Msg("modulo_complex")
    /\ rpn[k] = <<"%">>
    /\ a.t = "float"
    /\ b.t = "complex"
    /\ ~ExactlyZero(b)

(***************************************************************************)
(* C11                                                                     *)
(***************************************************************************)
\* an identifier that is not a function name
IsIdentifier(token) ==
    /\ token # <<>>
    /\ \A n \in 1..Len(token) : token[n] \in Letters
    /\ token \notin FUNCTIONS

UnboundIdentifiers == {n \in 1..Len(rpn) : IsIdentifier(rpn[n]) /\ rpn[n] \notin DOMAIN variables}

UndefinedVariable(name) ==
    exc = "ValueError" /\ exc_msg = [key |-> "variable_not_defined", arg |-> name]

\* C11 (as stated): whenever the postfix contains a non-function identifier
\* absent from the bindings, evaluate_rpn fails with the undefined-variable
\* error naming such an identifier.
C11_UnboundAlwaysReported ==
    (pc = "done" /\ success /\ UnboundIdentifiers # {})
        => \E n \in UnboundIdentifiers : UndefinedVariable(rpn[n])

\* C11 (amended): when the evaluation reaches an identifier token, it fails
\* with the undefined-variable error naming that token if the bindings lack
\* it, and pushes the bound value otherwise; "x+1" fails naming x under no
\* bindings and evaluates to 3 under {x: 2}.
C11_IdentifierLookup ==
    /\ [][(pc = "evaluate_rpn" /\ k <= Len(rpn) /\ IsIdentifier(rpn[k]) /\ other' = other)
            => IF rpn[k] \in DOMAIN variables
               THEN /\ estack' = Append(estack, variables[rpn[k]])
                    /\ exc' = "none" /\ pc' = "evaluate_rpn" /\ k' = k + 1
               ELSE /\ exc' = "ValueError"
                    /\ exc_msg' = [key |-> "variable_not_defined", arg |-> rpn[k]]
                    /\ pc' = "done" /\ result' = NoResult]_vars
    /\ []((pc = "done" /\ expression = ExXPlus1 /\ variables = EmptyBindings)
            => UndefinedVariable(<<"x">>))
    /\ []((pc = "done" /\ expression = ExXPlus1 /\ variables = XIsTwo)
            => (exc = "none" /\ result = PyFloat(<<3, 1>>)))

\* an evaluation that stopped at an unbound identifier after pushing a bound one
C11_Witness ==
    /\ pc = "done" /\ success
    /\ variables = XIsTwo
    /\ UndefinedVariable(<<"y">>)
    /\ estack = <<PyInt(2)>>

(***************************************************************************)
(* C12, C13, C14                                                           *)
(***************************************************************************)
\* evaluate_rpn is about to apply a function of the set fs to a value
AboutToCall(fs) ==
    /\ pc = "evaluate_rpn"
    /\ k <= Len(rpn)
    /\ rpn[k] \in fs
    /\ Len(estack) >= 1

Operand == estack[Len(estack)]

ComplexNotSupported ==
    {"modulo_complex", "floor_division_complex", "floor_complex", "ceiling_complex",
     "round_complex", "angle_complex"}

\* C12: each of floor, ceil, round, fact, rad and deg applied to a
\* complex-typed operand fails with a 'not defined for complex numbers'
\* error and returns nothing.
C12_RealOnlyRejectComplex ==
    [][(AboutToCall(RealOnlyFunctions) /\ Operand.t = "complex")
        => /\ exc' = "ValueError"
           /\ exc_msg'.key \in ComplexNotSupported
           /\ pc' = "done" /\ result' = NoResult]_vars

\* C13: a complex-aware function applied to a real-typed operand, when its
\* result has no imaginary part, pushes a real-typed value; floor(sqrt(4))
\* evaluates to 2.
C13_RealStaysReal ==
    /\ [][(AboutToCall(ComplexAwareFunctions) /\ Operand.t # "complex" /\ exc' = "none")
            => LET r == estack'[Len(estack')]
               IN  r.im = <<0, 1>> => r.t # "complex"]_vars
    /\ []((pc = "done" /\ expression = ExFloorSqrt)
            => (exc = "none" /\ result = [t |-> "int", re |-> <<2, 1>>, im |-> <<0, 1>>]))

\* n! by its recurrence
RECURSIVE RefFactorial(_)
RefFactorial(n) == IF n = 0 THEN 1 ELSE n * RefFactorial(n - 1)

\* "fact(5)", "fact(0)" and "fact(-1)"
ExFact5 == <<"f","a","c","t","(","5",")">>

ExFact0 == <<"f","a","c","t","(","0",")">>

ExFactMinus1 == <<"f","a","c","t","(","-","1",")">>

FactorialArgument == exc = "ValueError" /\ exc_msg = [key |-> "factorial_argument", arg |-> <<>>]

\* C14: fact of a negative or non-integer real fails with 'Factorial requires
\* non-negative integer'; fact of a non-negative integer-valued real n pushes
\* the int n!; fact(5) = 120, fact(0) = 1 and fact(-1) fails.
C14_Factorial ==
    /\ [][(AboutToCall({<<"f","a","c","t">>}) /\ Operand.t # "complex")
            => LET n == Operand.re[1]
                   d == Operand.re[2]
               IN  IF n < 0 \/ d # 1
                   THEN /\ exc' = "ValueError"
                        /\ exc_msg' = [key |-> "factorial_argument", arg |-> <<>>]
                        /\ pc' = "done" /\ result' = NoResult
                   ELSE exc' # "Unmodelled"
                        => /\ exc' = "none"
                           /\ estack' = Append(SubSeq(estack, 1, Len(estack) - 1),
                                                [t |-> "int", re |-> <<RefFactorial(n), 1>>,
                                                 im |-> <<0, 1>>])]_vars
    /\ []((pc = "done" /\ expression = ExFact5)
            => (exc = "none" /\ result = [t |-> "int", re |-> <<120, 1>>, im |-> <<0, 1>>]))
    /\ []((pc = "done" /\ expression = ExFact0)
            => (exc = "none" /\ result = [t |-> "int", re |-> <<1, 1>>, im |-> <<0, 1>>]))
    /\ []((pc = "done" /\ expression = ExFactMinus1) => FactorialArgument)

\* fact has returned the int 24 for the operand 4.0
C14_Witness ==
    /\ pc = "done" /\ success
    /\ rpn = <<<<"4">>, <<"f","a","c","t">>>>
    /\ exc = "none"
    /\ result = [t |-> "int", re |-> <<24, 1>>, im |-> <<0, 1>>]

(***************************************************************************)
(* C15                                                                     *)
(***************************************************************************)
\* C15: for every name f of the function table, convert_to_rpn("f(1)")
\* succeeds and returns the postfix 1 f.
C15_EveryFunctionUsable ==
    \A f \in FUNCTIONS :
        (Converted /\ expression = f \o <<"(", "1", ")">>)
            => (success /\ rpn = <<<<"1">>, f>>)

(***************************************************************************)
(* C16, C17, C18                                                           *)
(***************************************************************************)
\* tokenize has returned its token list
Tokenized == pc \in {"validate_tokens", "infix_to_rpn", "evaluate_rpn"} \/ (pc = "done" /\ tokens # <<>>)

DotCount(token) == Cardinality({n \in 1..Len(token) : token[n] = "."})

IsNumberToken(token) == token # <<>> /\ \A n \in 1..Len(token) : token[n] \in Digits \cup {"."}

\* C16: every number token returned by tokenize holds at most one decimal
\* point, and evaluate_rpn never fails to parse a number token.
C16_NumbersHaveOneDot ==
    /\ Tokenized => \A n \in 1..Len(tokens) : IsNumberToken(tokens[n]) => DotCount(tokens[n]) <= 1
    /\ exc_msg.key # "could_not_convert_float"

\* C17: an 'Invalid character' error of convert_to_rpn names the character
\* at the first position of the cleaned string where the left-to-right scan
\* matches no number, identifier, operator or parenthesis.
C17_LeftmostInvalidCharacter ==
    (pc = "done" /\ ~success /\ error.key = "invalid_char")
        => LET sc == ScanLoop(Cleaned, 1, <<>>)
           IN  sc.raised /\ error.arg = <<sc.ch>>

\* every ',' of s stands between two digits
CommaIsSeparator(s) ==
    \A n \in 1..Len(s) :
        s[n] = "," => (n > 1 /\ n < Len(s) /\ s[n - 1] \in Digits /\ s[n + 1] \in Digits)

WithDots(s) == [n \in 1..Len(s) |-> IF s[n] = "," THEN "." ELSE s[n]]

\* C18: an expression with ',' as the decimal separator gets from tokenize
\* and from convert_to_rpn what the same expression with '.' gets.
C18_CommaLikeDot ==
    (Converted /\ CommaIsSeparator(expression))
        => /\ tokenize(expression) = tokenize(WithDots(expression))
           /\ [success |-> success,
                rpn |-> IF success THEN rpn ELSE <<>>,
                error |-> error] = convert_to_rpn(WithDots(expression))

(***************************************************************************)
(* C19, C20                                                                *)
(***************************************************************************)
\* C19: from the call to the return of the engine the bindings map that the
\* caller passed keeps its keys and values.
C19_BindingsNeverMutated ==
    [][(entry \in {"once", "random", "repeated"} /\ pc # "done")
            => variables' = variables]_vars

\* the outcome of evaluate_rpn on a fresh conversion of the expression
FreshOutcome == evaluate_rpn(convert_to_rpn(expression).rpn, variables)

\* C20: no step of evaluate_rpn changes the postfix list, and every call on
\* it, the first or a further one after a result or an error, ends as a call
\* on a fresh conversion of the expression with the same bindings ends.
C20_PostfixReusable ==
    /\ [][pc = "evaluate_rpn" => rpn' = rpn]_vars
    /\ []((pc = "done" /\ success)
            => /\ rpn = convert_to_rpn(expression).rpn
               /\ exc = FreshOutcome.exc
               /\ exc_msg = FreshOutcome.msg
               /\ result = IF exc = "none" THEN FreshOutcome.val ELSE NoResult)

\* x/y, whose first call failed for want of y, has been evaluated again and
\* has returned 0.25
C20_Witness ==
    /\ pc = "done"
    /\ entry = "repeated"
    /\ runs >= 1
    /\ expression = ExXOverY
    /\ variables = XOverFour
    /\ exc = "none"
    /\ result = [t |-> "float", re |-> <<1, 4>>, im |-> <<0, 1>>]

(***************************************************************************)
(* C21, C22                                                                *)
(***************************************************************************)
\* a prefix converter has returned for an expression of the prefix family
PrefixReturned == pc = "returned" /\ expression \in PrefixExpressions

\* the operand words of a sequence of words, in their order
OperandWords(words) == SelectSeq(words, isalnum)

\* "a-b-c"
ExAMinusBMinusC == <<"a", "-", "b", "-", "c">>

\* C21: a prefix converter puts each binary operator before its two operands,
\* the left operand first: the operands of the result stand in their infix
\* order, "a op b" gives "op a b" for every binary operator, and "a-b-c"
\* gives "- - a b c".
C21_OperatorBeforeOperands ==
    PrefixReturned =>
        /\ prefix.exc = "none"
        /\ OperandWords(split(prefix.val)) = OperandWords(tokenize(expression).tokens)
        /\ \A op \in PrefixOperators :
               expression = <<"a">> \o op \o <<"b">>
                   => prefix.val = op \o <<" ", "a", " ", "b">>
        /\ expression = ExAMinusBMinusC
               => prefix.val = <<"-", " ", "-", " ", "a", " ", "b", " ", "c">>

\* the prefix words of the tree that a postfix sequence encodes
RECURSIVE PrefixOfPostfix(_, _, _)
PrefixOfPostfix(postfix, n, st) ==
    IF n > Len(postfix) THEN st
    ELSE IF postfix[n] \in DOMAIN OPERATORS /\ Len(st) >= 2
    THEN PrefixOfPostfix(postfix, n + 1,
             Append(Pop(Pop(st)), <<postfix[n]>> \o st[Len(st) - 1] \o st[Len(st)]))
    ELSE PrefixOfPostfix(postfix, n + 1, Append(st, <<postfix[n]>>))

\* the prefix string of the tree that infix_to_rpn builds for the expression
TreePrefix(e) == join(Top(PrefixOfPostfix(infix_to_rpn(tokenize(e).tokens), 1, <<>>)))

\* C22: the prefix string is the prefix form of the tree that
\* function_main_lat.infix_to_rpn encodes in postfix, for both converters.
C22_SameTreeAsPostfix ==
    PrefixReturned => prefix.exc = "none" /\ prefix.val = TreePrefix(expression)

(***************************************************************************)
(* C23                                                                     *)
(***************************************************************************)
ConstantNames == {<<"p", "i">>, <<"e">>, <<"P", "I">>, <<"E">>}

\* a step that reads a line at the prompt
ReadsLine == entry = "interactive" /\ runs' = runs + 1

\* C23: in interactive mode and in command-line mode pi, e, PI and E are
\* bound whenever evaluate_rpn runs; the clear command leaves exactly these
\* four names, bound to the constants; reading an expression and evaluating
\* it leaves the bindings as they were.
C23_ConstantsAlwaysBound ==
    /\ []((entry \in {"interactive", "main"} /\ pc = "evaluate_rpn")
            => ConstantNames \subseteq DOMAIN variables)
    /\ [][(ReadsLine /\ command_branch(expression') = "clear")
            => /\ DOMAIN variables' = ConstantNames
               /\ variables' = Constants]_vars
    /\ [][(ReadsLine /\ command_branch(expression') = "expression")
            => variables' = variables]_vars
    /\ [][(entry = "interactive" /\ pc \notin {"prompt", "done"})
            => variables' = variables]_vars

\* after "set pi 3" the expression pi has been evaluated to 3.0 with all
\* four names bound
C23_Witness ==
    /\ entry = "interactive"
    /\ pc = "done"
    /\ expression = <<"p", "i">>
    /\ ConstantNames \subseteq DOMAIN variables
    /\ variables[<<"p", "i">>] = PyFloat(<<3, 1>>)
    /\ exc = "none"
    /\ result = PyFloat(<<3, 1>>)

(***************************************************************************)
(* C24                                                                     *)
(***************************************************************************)
\* what convert_to_rpn followed by evaluate_rpn gives when run alone
Alone(e, vs) ==
    LET c == convert_to_rpn(e)
        r == evaluate_rpn(c.rpn, vs)
    IN  [conversion |-> c,
         outcome |-> IF ~c.success THEN [exc |-> "none", msg |-> NoError, val |-> NoResult]
                     ELSE [r EXCEPT !.val = IF r.exc = "none" THEN r.val ELSE NoResult]]

\* C24: no step of an engine operation changes the module-level tables; of
\* two invocations that run interleaved, each on its own arguments and each
\* reading the tables as it finds them at every step, each ends with what
\* it gives when run alone on the tables as defined; and a second call of
\* convert_to_rpn (validation and tokenization) on the same string returns
\* what the first call returned.
C24_NoSharedState ==
    /\ [][module' = module]_vars
    /\ [](module = Tables)
    /\ []((entry = "concurrent" /\ pc = "done")
            => /\ success = Alone(expression, variables).conversion.success
               /\ rpn = Alone(expression, variables).conversion.rpn
               /\ error = Alone(expression, variables).conversion.error
               /\ [exc |-> exc, msg |-> exc_msg, val |-> result]
                      = Alone(expression, variables).outcome)
    /\ [](other.pc = "done"
            => /\ other.conversion = Alone(other.expression, other.variables).conversion
               /\ other.outcome = Alone(other.expression, other.variables).outcome
               /\ other.previous = other.conversion)

\* both invocations have ended, x/y with y = 4 in one and with y = 0 in the
\* other, one with 0.25 and one with a division by zero
C24_Witness ==
    /\ entry = "concurrent"
    /\ pc = "done"
    /\ other.pc = "done"
    /\ other.calls = 2
    /\ expression = ExXOverY
    /\ other.expression = ExXOverY
    /\ variables = XOverFour
    /\ other.variables = XOverZero
    /\ result = [t |-> "float", re |-> <<1, 4>>, im |-> <<0, 1>>]
    /\ other.outcome.exc = "ValueError"
    /\ other.outcome.msg = Msg("division_by_zero")

(***************************************************************************)
(* C25                                                                     *)
(***************************************************************************)
\* the loop of infix_to_rpn is at a binary operator
AtBinary ==
    /\ pc = "infix_to_rpn"
    /\ i <= Len(tokens)
    /\ TokenBranch(tokens[i], expect_unary) = "binary"

\* C25: a binary operator that arrives when a function name, a unary marker
\* or '(' is on top of the stack pops nothing and is pushed directly above
\* that element.
C25_TopStopsPopping ==
    [][(AtBinary /\ stack # <<>>
            /\ Top(stack) \in FUNCTIONS \cup UnaryMarkers \cup {<<"(">>})
        => output' = output /\ stack' = Append(stack, tokens[i])]_vars

(***************************************************************************)
(* C26                                                                     *)
(***************************************************************************)
Parentheses == {<<"(">>, <<")">>}

\* C26: infix_to_rpn never returns a postfix that holds a parenthesis, and
\* evaluate_rpn on a postfix with a token that is not a number, an
\* identifier, a binary operator, a unary marker or a function name ends
\* with an error, not with a result.
C26_MalformedRejected ==
    /\ (entry = "infix_to_rpn" /\ pc = "returned")
           => \A n \in 1..Len(rpn) : rpn[n] \notin Parentheses
    /\ (entry = "evaluate_rpn" /\ pc = "done"
            /\ \E n \in 1..Len(rpn) : EvalBranch(rpn[n]) = "skip")
           => exc # "none"

(***************************************************************************)
(* C27                                                                     *)
(***************************************************************************)
\* the token at position n of an infix sequence is a unary sign: a '+' or
\* '-' that is first or follows neither an operand nor a ')'
IsUnaryAt(toks, n) ==
    /\ toks[n] \in PlusMinus
    /\ \/ n = 1
       \/ get_token_type(toks[n - 1]) # "operand" /\ toks[n - 1] # <<")">>

\* the infix tokens without the parentheses, each unary sign renamed
RECURSIVE Renamed(_, _)
Renamed(toks, n) ==
    IF n > Len(toks) THEN <<>>
    ELSE IF toks[n] \in Parentheses THEN Renamed(toks, n + 1)
    ELSE <<IF IsUnaryAt(toks, n) THEN UnaryMarker(toks[n]) ELSE toks[n]>>
         \o Renamed(toks, n + 1)

Occurrences(t, seq) == Cardinality({n \in 1..Len(seq) : seq[n] = t})

IsOperandToken(t) == get_token_type(t) = "operand"

\* the number of '(' among the first n tokens minus the number of ')'
OpenAt(toks, n) ==
    Cardinality({m \in 1..n : toks[m] = <<"(">>}) - Cardinality({m \in 1..n : toks[m] = <<")">>})

\* the run of convert_to_rpn on an expression string
InPipeline == entry \in {"once", "random", "repeated", "main", "interactive", "concurrent"}

\* C27: for a token sequence that validation accepted, infix_to_rpn ends
\* with an empty stack and an output without parentheses, as long as the
\* input without its parentheses, a permutation of it with the unary signs
\* renamed, and with the numbers and variables in their input order; while
\* it runs, the stack holds as many '(' as are open among the tokens read.
C27_ConversionInvariants ==
    /\ (InPipeline /\ pc = "infix_to_rpn")
           => Occurrences(<<"(">>, stack) = OpenAt(tokens, i - 1)
    /\ (InPipeline /\ Converted /\ success)
           => /\ stack = <<>>
              /\ \A n \in 1..Len(rpn) : rpn[n] \notin Parentheses
              /\ Len(rpn) = Len(Renamed(tokens, 1))
              /\ \A n \in 1..Len(rpn) :
                     Occurrences(rpn[n], rpn) = Occurrences(rpn[n], Renamed(tokens, 1))
              /\ SelectSeq(rpn, IsOperandToken) = SelectSeq(tokens, IsOperandToken)

\* "-(2+3)" has been converted to 2 3 + u-
C27_Witness ==
    /\ InPipeline
    /\ Converted
    /\ success
    /\ expression = ExMinusParen
    /\ rpn = <<<<"2">>, <<"3">>, <<"+">>, <<"u", "-">>>>

(***************************************************************************)
(* C28                                                                     *)
(***************************************************************************)
\* the bindings that the postfix reads are real numbers
RealBindings ==
    \A n \in 1..Len(rpn) :
        rpn[n] \in DOMAIN variables => variables[rpn[n]].t # "complex"

\* C28: evaluate_rpn on the postfix of an accepted expression, with real
\* bindings, ends with a result or with a ValueError, never with another
\* exception.
C28_OnlyValueError ==
    (InPipeline /\ pc = "done" /\ success /\ RealBindings
        /\ exc \notin {"none", "Unmodelled"})
        => exc = "ValueError"

(***************************************************************************)
(* C29                                                                     *)
(***************************************************************************)
\* the expression without its spaces
Squeezed(e) == Replace(Replace(e, " ", <<>>), "\t", <<>>)

\* the maximal runs of letters of a string, from position n on
RECURSIVE Names(_, _)
Names(e, n) ==
    IF n > Len(e) THEN {}
    ELSE IF isalpha(e[n]) THEN {SubSeq(e, n, AlphaEnd(e, n) - 1)} \cup Names(e, AlphaEnd(e, n))
    ELSE Names(e, n + 1)

\* an expression of the language that both converters handle: digits,
\* names that are not function names, + - * /, parentheses and spaces, with
\* no '+' or '-' at the start, after '(' or after an operator
CommonLanguage(e) ==
    /\ \A n \in 1..Len(e) :
           e[n] \in Digits \cup Letters \cup {"+", "-", "*", "/", "(", ")"} \cup Spaces
    /\ Names(e, 1) \cap FUNCTIONS = {}
    /\ LET q == Squeezed(e)
       IN  \A n \in 1..Len(q) :
               q[n] \in {"+", "-"} => n > 1 /\ q[n - 1] \notin {"(", "+", "-", "*", "/"}

\* C29: on the common language function_main.convert_to_rpn returns the
\* success flag of function_main_lat.convert_to_rpn and, on success, the
\* same postfix.
C29_ConvertersAgree ==
    (entry = "function_main" /\ pc = "returned" /\ CommonLanguage(expression))
        => /\ success = convert_to_rpn(expression).success
           /\ success => rpn = convert_to_rpn(expression).rpn

(***************************************************************************)
(* C30                                                                     *)
(***************************************************************************)
\* the last m elements of the stack, in the order in which they are popped
Popped(st, m) == Reverse(SubSeq(st, Len(st) - m + 1, Len(st)))

NotOpen(t) == t # <<"(">>

\* one iteration of the for loop of infix_to_rpn pops some m elements, each
\* once, moves them to the output in pop order (a '(' is dropped), and
\* pushes at most one element, the token or its unary marker
PopsThenPushesOnce ==
    \E m \in 0..Len(stack) :
        LET kept == SubSeq(stack, 1, Len(stack) - m)
            moved == SelectSeq(Popped(stack, m), NotOpen)
            token == tokens[i]
        IN  \/ stack' = kept /\ output' = output \o moved
            \/ stack' = kept /\ m = 0 /\ output' = Append(output, token)
            \/ /\ stack' \in {Append(kept, token), Append(kept, <<"u">> \o token)}
               /\ output' = output \o moved

\* C30: tokenize and infix_to_rpn terminate.  Every iteration of the scan
\* loop of tokenize moves the index forward and never past the end; every
\* iteration of the loop of infix_to_rpn takes the next token, pops each
\* element it pops once and pushes at most one element; the scan is over
\* the cleaned string and ends with the result of tokenize; and both calls
\* return.
C30_LoopsTerminate ==
    /\ [][(pc = "tokenize_loop" /\ pc' = "tokenize_loop")
            => i' > i /\ i' <= Len(expression) + 1]_vars
    /\ [][(pc = "infix_to_rpn" /\ i <= Len(tokens) /\ other' = other)
            => i' = i + 1 /\ PopsThenPushesOnce]_vars
    /\ [][(entry = "tokenize" /\ pc = "tokenize_clean")
            => tokenize(expression') = tokenize(expression)]_vars
    /\ []((entry = "tokenize" /\ pc = "returned")
            => LET t == tokenize(expression)
               IN  IF exc = "ValueError" THEN t.kind = "raise" /\ exc_msg = t.error
                   ELSE IF success THEN t.kind = "ok" /\ tokens = t.tokens
                   ELSE t.kind = "none")
    /\ ((entry = "tokenize" /\ pc = "tokenize_loop") \/ entry = "infix_to_rpn")
            ~> (pc = "returned")

\* tokenize("x**1") has returned ['x', '**', '1'] after three iterations
\* of its while loop; its closing for loop has left i at its second index
C30_Witness ==
    /\ entry = "tokenize"
    /\ pc = "returned"
    /\ expression = <<"x", "*", "*", "1">>
    /\ i = 2
    /\ success
    /\ tokens = <<<<"x">>, <<"*", "*">>, <<"1">>>>

====
